---- MODULE Spec2Model ----
(***************************************************************************)
(* Client-hunter: the multi-source scraping core.                          *)
(*                                                                         *)
(*   database/db_manager.py            DatabaseManager (SQLite store)      *)
(*   utils/scraping_utils.py           ScrapingUtils.is_valid_business_data*)
(*   scraper/business_scraper.py       BusinessScraper                     *)
(*   scraper/real_business_scraper.py  RealBusinessScraper                 *)
(*   scraper/streamlit_real_scraper.py StreamlitRealScraper                *)
(*                                                                         *)
(* A Python str is a sequence of one-character strings; a dict is a record *)
(* whose absent keys hold Absent and whose None values hold NoneVal.       *)
(***************************************************************************)
EXTENDS Integers, Sequences, FiniteSets, TLC

VARIABLES
    \* ---- the SQLite store (db_manager.py) ----
    db_businesses,   \* table businesses: sequence of rows, id = position
    db_sessions,     \* table scraping_sessions: sequence of rows, id = position
    db_op,           \* the last DatabaseManager call: name, argument, return value
    \* ---- one orchestrator object and its scrape_location call ----
    orch,            \* the orchestrator class of the object
    pc,              \* position of the scrape_location coroutine
    sources,         \* the list the source loop iterates over
    requested,       \* the `sources` argument as passed by the caller
    idx,             \* loop position in `sources` (1-based)
    session_id,      \* self.session_id
    results,         \* the results dict under construction / returned
    all_businesses,  \* the local list all_businesses
    raised,          \* an exception left scrape_location
    calls,           \* adapter invocations so far: source, outcome, records
                     \* returned, and whether the inter-source delay followed
    db_failed,       \* DatabaseManager calls of this run that hit an sqlite error
    previous_run,    \* <<>>, or what the object's previous scrape_location call left
    \* ---- a pure function applied to an input ----
    fn, fin, fout

store_vars == <<db_businesses, db_sessions, db_op>>
run_vars   == <<orch, pc, sources, requested, idx, session_id, results,
                all_businesses, raised, calls, db_failed, previous_run>>
fn_vars    == <<fn, fin, fout>>
vars       == <<store_vars, run_vars, fn_vars>>

(***************************************************************************)
(* Python values                                                           *)
(***************************************************************************)
Absent  == <<"<absent>">>     \* key not in the dict
NoneVal == <<"<None>">>       \* key present, value None

IsStr(v) == v \notin {Absent, NoneVal}

\* dict.get(key, '') : the default replaces an absent key only, never a None value
Get(v) == IF v = Absent THEN <<>> ELSE v

\* truthiness of dict.get(key): absent, None and '' are falsy
Truthy(v) == IsStr(v) /\ v # <<>>

UpperLetters == <<"A","B","C","D","E","F","G","H","I","J","K","L","M",
                  "N","O","P","Q","R","S","T","U","V","W","X","Y","Z">>
LowerLetters == <<"a","b","c","d","e","f","g","h","i","j","k","l","m",
                  "n","o","p","q","r","s","t","u","v","w","x","y","z">>
Whitespace   == {" ", "\t", "\n", "\r"}
Digits       == {"0","1","2","3","4","5","6","7","8","9"}

LowerChar(c) ==
    IF \E i \in 1..Len(UpperLetters) : UpperLetters[i] = c
    THEN LowerLetters[CHOOSE i \in 1..Len(UpperLetters) : UpperLetters[i] = c]
    ELSE c

\* str.lower()
Lower(s) == [i \in 1..Len(s) |-> LowerChar(s[i])]

\* str.strip(): drop leading and trailing whitespace
Strip(s) ==
    LET keep == {i \in 1..Len(s) : s[i] \notin Whitespace}
    IN  IF keep = {} THEN <<>>
        ELSE LET lo == CHOOSE i \in keep : \A j \in keep : i <= j
                 hi == CHOOSE i \in keep : \A j \in keep : j <= i
             IN  SubSeq(s, lo, hi)

\* s[:n]
Take(s, n) == SubSeq(s, 1, IF Len(s) < n THEN Len(s) ELSE n)

\* sub in s
Contains(s, sub) ==
    \E i \in 1..(Len(s) - Len(sub) + 1) : SubSeq(s, i, i + Len(sub) - 1) = sub

\* s.split(',')[-1]: what follows the last comma, the whole string when there is none
SplitLast(s) ==
    LET commas == {i \in 1..Len(s) : s[i] = ","}
    IN  IF commas = {} THEN s
        ELSE SubSeq(s, (CHOOSE i \in commas : \A j \in commas : j <= i) + 1, Len(s))

SeqSet(s) == {s[i] : i \in 1..Len(s)}


\* f"{a}|{b}|{c}"
Join3(a, b, c) == a \o <<"|">> \o b \o <<"|">> \o c

\* f"{a}_{b}"
Join2(a, b) == a \o <<"_">> \o b

\* all sequences over S of length at most n
BoundedSeq(S, n) == UNION {[1..k -> S] : k \in 0..n}

(***************************************************************************)
(* Deduplication                                                           *)
(***************************************************************************)
AddressKeyLen == 50

\* variant of the key that takes the whole address, as _remove_duplicates does
unique_key_whole_address(b) ==
    LET name     == Strip(Lower(Get(b.business_name)))
        location == Strip(Lower(Get(b.location)))
        address  == Strip(Lower(Get(b.address)))
    IN  Join3(name, location, address)

\* real_business_scraper.py 276-283: the key of one business
unique_key(b) ==
    LET name     == Strip(Lower(Get(b.business_name)))
        location == Strip(Lower(Get(b.location)))
        address  == Strip(Lower(Get(b.address)))
    IN  Join3(name, location, Take(address, AddressKeyLen))

\* variant of the loop in which a later business replaces the one kept for its key
RECURSIVE cross_source_loop_last_wins(_, _, _, _)
cross_source_loop_last_wins(bs, i, seen_businesses, unique_businesses) ==
    IF i > Len(bs) THEN unique_businesses
    ELSE LET name == Strip(Lower(Get(bs[i].business_name)))
             key  == Join3(name, Strip(Lower(Get(bs[i].location))),
                           Take(Strip(Lower(Get(bs[i].address))), AddressKeyLen))
         IN  IF name = <<>>
             THEN cross_source_loop_last_wins(bs, i + 1, seen_businesses, unique_businesses)
             ELSE IF key \notin seen_businesses
             THEN cross_source_loop_last_wins(bs, i + 1, seen_businesses \cup {key},
                                              Append(unique_businesses, bs[i]))
             ELSE cross_source_loop_last_wins(bs, i + 1, seen_businesses,
                      [k \in 1..Len(unique_businesses) |->
                          IF Join3(Strip(Lower(Get(unique_businesses[k].business_name))),
                                   Strip(Lower(Get(unique_businesses[k].location))),
                                   Take(Strip(Lower(Get(unique_businesses[k].address))),
                                        AddressKeyLen)) = key
                          THEN bs[i] ELSE unique_businesses[k]])

RECURSIVE cross_source_loop(_, _, _, _)
cross_source_loop(bs, i, seen_businesses, unique_businesses) ==
    IF i > Len(bs) THEN unique_businesses
    ELSE LET name == Strip(Lower(Get(bs[i].business_name)))
             key  == unique_key(bs[i])
         IN  IF key \notin seen_businesses /\ name # <<>>
             THEN cross_source_loop(bs, i + 1, seen_businesses \cup {key},
                                    Append(unique_businesses, bs[i]))
             ELSE cross_source_loop(bs, i + 1, seen_businesses, unique_businesses)

\* RealBusinessScraper._remove_cross_source_duplicates
remove_cross_source_duplicates(bs) == cross_source_loop(bs, 1, {}, <<>>)

\* streamlit_real_scraper.py 175-177: the key of one business
streamlit_key(b) ==
    LET name    == Strip(Lower(Get(b.business_name)))
        address == Strip(Lower(Get(b.address)))
    IN  Join2(name, address)

RECURSIVE remove_duplicates_loop(_, _, _, _)
remove_duplicates_loop(bs, i, seen, unique_businesses) ==
    IF i > Len(bs) THEN unique_businesses
    ELSE LET name == Strip(Lower(Get(bs[i].business_name)))
             key  == streamlit_key(bs[i])
         IN  IF key \notin seen /\ name # <<>>
             THEN remove_duplicates_loop(bs, i + 1, seen \cup {key},
                                         Append(unique_businesses, bs[i]))
             ELSE remove_duplicates_loop(bs, i + 1, seen, unique_businesses)

\* StreamlitRealScraper._remove_duplicates
remove_duplicates(bs) == remove_duplicates_loop(bs, 1, {}, <<>>)

(***************************************************************************)
(* Validation                                                              *)
(***************************************************************************)
\* re.search(r'(\+91[-\s]?)?[6-9]\d{9}', contact)
MobileAt(s, i) ==
    /\ i >= 1 /\ i + 9 <= Len(s)
    /\ s[i] \in {"6", "7", "8", "9"}
    /\ \A k \in 1..9 : s[i + k] \in Digits

PrefixAt(s, i) == i + 2 <= Len(s) /\ SubSeq(s, i, i + 2) = <<"+", "9", "1">>

\* length of the match that starts at position i, 0 when none starts there:
\* the optional group and the optional separator are greedy, then backtrack
MatchLenAt(s, i) ==
    IF PrefixAt(s, i) /\ i + 3 <= Len(s) /\ s[i + 3] \in ({"-"} \cup Whitespace)
       /\ MobileAt(s, i + 4) THEN 14
    ELSE IF PrefixAt(s, i) /\ MobileAt(s, i + 3) THEN 13
    ELSE IF MobileAt(s, i) THEN 10
    ELSE 0

NoMatch == <<"<no match>">>

\* phone_match.group(0) of the leftmost match, NoMatch when re.search gives None
phone_search(s) ==
    LET hits == {i \in 1..Len(s) : MatchLenAt(s, i) > 0}
    IN  IF hits = {} THEN NoMatch
        ELSE LET lo == CHOOSE i \in hits : \A j \in hits : i <= j
             IN  SubSeq(s, lo, lo + MatchLenAt(s, lo) - 1)

ContactMarkers == { <<"d","e","m","o">>, <<"f","a","k","e">>, <<"t","e","s","t">>,
                    <<"s","a","m","p","l","e">> }
WebsiteMarkers == ContactMarkers \cup { <<"l","o","c","a","l","h","o","s","t">> }

HasMarker(s, markers) == \E m \in markers : Contains(Lower(s), m)

\* ScrapingUtils.is_valid_business_data
\* variant of is_valid_business_data without the contact-method check of 264-266
is_valid_business_data_required_only(business) ==
    /\ Strip(Get(business.business_name)) # <<>>
    /\ Strip(Get(business.location)) # <<>>

is_valid_business_data(business) ==
    /\ Strip(Get(business.business_name)) # <<>>
    /\ Strip(Get(business.location)) # <<>>
    /\ \E method \in {"contact", "website", "address"} :
           Strip(Get(business[method])) # <<>>

Rejected == [rejected |-> TRUE]

\* real_business_scraper.py 199-212
clean_contact(business) ==
    LET contact == Strip(Get(business.contact))
    IN  IF contact = <<>> THEN business
        ELSE IF HasMarker(contact, ContactMarkers)
             THEN [business EXCEPT !.contact = <<>>]
        ELSE IF phone_search(contact) # NoMatch
             THEN [business EXCEPT !.contact = phone_search(contact)]
        ELSE [business EXCEPT !.contact = contact]

\* real_business_scraper.py 214-217
clean_address(business) ==
    LET address == Strip(Get(business.address))
    IN  IF address # <<>> THEN [business EXCEPT !.address = address] ELSE business

\* real_business_scraper.py 219-226
clean_website(business) ==
    LET website == Strip(Get(business.website))
    IN  IF website = <<>> THEN business
        ELSE IF HasMarker(website, WebsiteMarkers)
             THEN [business EXCEPT !.website = <<>>]
        ELSE [business EXCEPT !.website = website]

\* real_business_scraper.py 228-230
ensure_location(business) ==
    IF ~Truthy(business.location)
    THEN [business EXCEPT !.location = Strip(SplitLast(Get(business.address)))]
    ELSE business

\* the body of the loop of _validate_and_clean_businesses for one business:
\* the cleaned business, or Rejected (a `continue`, an exception caught by the
\* loop's except clause, or a failed final check)
validate_one(business) ==
    IF ~Truthy(business.business_name) \/ Strip(business.business_name) = <<>>
    THEN Rejected
    ELSE IF NoneVal \in {business.contact, business.address, business.website}
    THEN Rejected      \* None.strip() raises AttributeError, caught at 240-242
    ELSE LET named   == [business EXCEPT !.business_name = Strip(business.business_name)]
             cleaned == ensure_location(clean_website(clean_address(clean_contact(named))))
             marked  == [cleaned EXCEPT !.data_type = <<"REAL_DATA">>]
         IN  IF is_valid_business_data(marked) THEN marked ELSE Rejected

RECURSIVE validate_loop(_, _, _)
validate_loop(bs, i, validated_businesses) ==
    IF i > Len(bs) THEN validated_businesses
    ELSE validate_loop(bs, i + 1,
            IF validate_one(bs[i]) = Rejected THEN validated_businesses
            ELSE Append(validated_businesses, validate_one(bs[i])))

\* RealBusinessScraper._validate_and_clean_businesses
validate_and_clean_businesses(bs) == validate_loop(bs, 1, <<>>)

(***************************************************************************)
(* DatabaseManager.  A row carries the columns business_name, contact,     *)
(* address, website, location and source; NoneVal is SQL NULL.  Every      *)
(* method runs in one transaction and catches every exception: `ok` is     *)
(* FALSE for a call in which sqlite raised.                                *)
(***************************************************************************)
\* db_manager.py 100-110: the tuple bound to the INSERT for one business
data_tuple(business) ==
    [business_name |-> Get(business.business_name),
     contact       |-> Get(business.contact),
     address       |-> Get(business.address),
     website       |-> Get(business.website),
     location      |-> Get(business.location),
     source        |-> Get(business.source)]

\* db_manager.py 30, 35: business_name TEXT NOT NULL, location TEXT NOT NULL
violates_not_null(row) == row.business_name = NoneVal \/ row.location = NoneVal

\* db_manager.py 40: UNIQUE(business_name, address, location); NULLs never conflict
violates_unique(rows, row) ==
    \E i \in 1..Len(rows) :
        /\ rows[i].business_name = row.business_name
        /\ rows[i].address = row.address
        /\ rows[i].location = row.location
        /\ NoneVal \notin {row.business_name, row.address, row.location}

\* INSERT OR REPLACE in place of INSERT OR IGNORE: the conflicting row is deleted,
\* the new one inserted and counted
insert_or_replace(rows, row) ==
    IF violates_not_null(row) THEN [rows |-> rows, rowcount |-> 0]
    ELSE [rows |-> Append(SelectSeq(rows, LAMBDA r : ~violates_unique(<<r>>, row)), row),
          rowcount |-> 1]

\* variant of INSERT OR IGNORE that, on a UNIQUE conflict, updates the stored row
\* with the new values (ON CONFLICT DO UPDATE)
insert_or_update(rows, row) ==
    IF violates_not_null(row) THEN [rows |-> rows, rowcount |-> 0]
    ELSE IF violates_unique(rows, row)
    THEN [rows |-> [i \in 1..Len(rows) |->
                       IF violates_unique(<<rows[i]>>, row) THEN row ELSE rows[i]],
          rowcount |-> 1]
    ELSE [rows |-> Append(rows, row), rowcount |-> 1]

\* INSERT OR IGNORE of one row: the table after it and the rows it changed
insert_or_ignore(rows, row) ==
    IF violates_not_null(row) \/ violates_unique(rows, row)
    THEN [rows |-> rows, rowcount |-> 0]
    ELSE [rows |-> Append(rows, row), rowcount |-> 1]

\* cursor.executemany: the statement runs once per tuple, rowcount sums up
RECURSIVE executemany(_, _, _, _)
executemany(rows, businesses, i, rowcount) ==
    IF i > Len(businesses) THEN [rows |-> rows, rowcount |-> rowcount]
    ELSE LET one == insert_or_ignore(rows, data_tuple(businesses[i]))
         IN  executemany(one.rows, businesses, i + 1, rowcount + one.rowcount)

\* DatabaseManager.insert_businesses_batch: the table afterwards, the value
\* returned (cursor.rowcount, or 0 from the except clause), exception left or not
insert_businesses_batch(rows, businesses, ok) ==
    IF ok
    THEN LET done == executemany(rows, businesses, 1, 0)
         IN  [rows |-> done.rows, ret |-> done.rowcount, exc |-> FALSE]
    ELSE [rows |-> rows, ret |-> 0, exc |-> FALSE]

\* DatabaseManager.insert_business: the table afterwards, the value returned
\* (cursor.rowcount > 0, or False from the except clause)
insert_business(rows, business_data, ok) ==
    IF ok
    THEN LET one == insert_or_ignore(rows, data_tuple(business_data))
         IN  [rows |-> one.rows, ret |-> one.rowcount > 0, exc |-> FALSE]
    ELSE [rows |-> rows, ret |-> FALSE, exc |-> FALSE]

\* variant of create_scraping_session without the except clause of lines 242-244
create_scraping_session_raising(sessions, location, ok) ==
    IF ok
    THEN [sessions |-> Append(sessions, [location |-> location, total_scraped |-> 0,
                                          status |-> "running", updates |-> 0]),
          ret |-> Len(sessions) + 1, exc |-> FALSE]
    ELSE [sessions |-> sessions, ret |-> -1, exc |-> TRUE]

\* DatabaseManager.create_scraping_session
create_scraping_session(sessions, location, ok) ==
    IF ok
    THEN [sessions |-> Append(sessions, [location |-> location, total_scraped |-> 0,
                                          status |-> "running", updates |-> 0]),
          ret |-> Len(sessions) + 1, exc |-> FALSE]
    ELSE [sessions |-> sessions, ret |-> -1, exc |-> FALSE]

\* DatabaseManager.update_scraping_session
update_scraping_session(sessions, id, total_scraped, status, ok) ==
    IF ok /\ id \in 1..Len(sessions)
    THEN [sessions |-> [sessions EXCEPT ![id] =
                           [@ EXCEPT !.total_scraped = total_scraped,
                                     !.status = status,
                                     !.updates = @ + 1]],
          exc |-> FALSE]
    ELSE [sessions |-> sessions, exc |-> FALSE]

(***************************************************************************)
(* The orchestrators                                                       *)
(***************************************************************************)
MaxSources == 2      \* longest `sources` argument
MaxResults == 2      \* longest list an adapter call returns

Orchestrators == {"BusinessScraper", "RealBusinessScraper", "StreamlitRealScraper"}

\* the keys of self.scrapers / self.real_scrapers
scrapers(o) ==
    CASE o = "BusinessScraper" ->
           {"justdial", "indiamart", "yellowpages", "googlemaps", "playwright", "it_clients"}
      [] o = "RealBusinessScraper" ->
           {"justdial_real", "google_maps_api", "local_directories", "playwright", "it_clients"}
      [] o = "StreamlitRealScraper" ->
           {"justdial_real", "yellowpages_real", "googlemaps_real", "googlemaps_api"}

\* source names a caller passes
SourceNames == {"justdial", "justdial_real", "it_clients", "unknown_source"}

\* the `location` argument of the run
RunLocation == <<"D">>

\* what an adapter may hand back, before the adapter stamps its own name on it
RunPool ==
    { [business_name |-> <<"A", " ">>, contact |-> Absent, address |-> <<"x">>,
       website |-> Absent, location |-> RunLocation, source |-> Absent,
       data_type |-> Absent],
      [business_name |-> <<"B">>, contact |-> Absent, address |-> Absent,
       website |-> Absent, location |-> RunLocation, source |-> Absent,
       data_type |-> Absent] }

\* one call of scraper.search_businesses: it raises, or returns a list
AdapterOutcomes ==
    {[raises |-> TRUE, businesses |-> <<>>]} \cup
    {[raises |-> FALSE, businesses |-> bs] : bs \in BoundedSeq(RunPool, MaxResults)}

\* the adapter writes its own name into every record it builds
stamped(bs, source) == [i \in 1..Len(bs) |-> [bs[i] EXCEPT !.source = <<source>>]]

OutcomeKind(out) ==
    IF out.raises THEN "raises" ELSE IF out.businesses = <<>> THEN "empty" ELSE "returned"

EmptyDict == [k \in {} |-> 0]

\* d[k] = v
DictSet(d, k, v) == (k :> v) @@ d

\* the results dict as built at the top of scrape_location
new_results(sid) ==
    [total_businesses |-> 0, sources_scraped |-> <<>>, businesses_by_source |-> EmptyDict,
     errors |-> <<>>, session_id |-> sid, has_businesses |-> FALSE, businesses |-> <<>>]

\* variant of BusinessScraper._scrape_from_source that logs the adapter's
\* exception and raises it again
business_scrape_from_source_raising(out) ==
    IF out.raises THEN [raises |-> TRUE, businesses |-> <<>>]
    ELSE [raises |-> FALSE,
          businesses |-> [i \in 1..Len(out.businesses) |->
                             [out.businesses[i] EXCEPT !.location = RunLocation]]]

\* BusinessScraper._scrape_from_source: an exception of the adapter is caught
\* and an empty list returned
business_scrape_from_source(out) ==
    IF out.raises THEN [raises |-> FALSE, businesses |-> <<>>]
    ELSE [raises |-> FALSE,
          businesses |-> [i \in 1..Len(out.businesses) |->
                             [out.businesses[i] EXCEPT !.location = RunLocation]]]

\* variant of RealBusinessScraper._scrape_from_source that returns [] instead of
\* raising again, as BusinessScraper's does
real_scrape_from_source_swallowing(out) ==
    IF out.raises THEN [raises |-> FALSE, businesses |-> <<>>] ELSE out

\* RealBusinessScraper._scrape_from_source: an exception of the adapter is logged
\* and raised again
real_scrape_from_source(out) == out

\* StreamlitRealScraper._scrape_from_real_source
streamlit_scrape_from_real_source(out) ==
    IF out.raises THEN [raises |-> FALSE, businesses |-> <<>>]
    ELSE [raises |-> FALSE,
          businesses |-> [i \in 1..Len(out.businesses) |->
                             [out.businesses[i] EXCEPT
                                 !.source = Get(@) \o <<" (Real)">>,
                                 !.data_type = <<"REAL_DATA">>,
                                 !.location = RunLocation]]]

\* streamlit_real_scraper.py 60-63
available_sources(req) ==
    LET avail == SelectSeq(req, LAMBDA s : s \in scrapers("StreamlitRealScraper"))
    IN  IF avail # <<>> THEN avail
        ELSE IF "justdial_real" \in scrapers("StreamlitRealScraper")
             THEN <<"justdial_real">> ELSE <<>>

\* variant of quick_scrape that always takes the default quick sources
quick_scrape_defaults(selected_sources) == <<"justdial", "indiamart">>

\* BusinessScraper.quick_scrape: the `sources` it hands to scrape_location
quick_scrape(selected_sources) ==
    IF selected_sources # <<>> THEN selected_sources ELSE <<"justdial", "indiamart">>

\* a DatabaseManager call of the run succeeds or hits an sqlite error; an
\* outage, once begun, lasts until the run returns
DbOutcomes == IF db_failed = {} THEN BOOLEAN ELSE {FALSE}

InitStore ==
    /\ db_businesses = <<>>
    /\ db_sessions = <<>>
    /\ db_op = [name |-> "none", arg |-> <<>>, ret |-> 0, ok |-> TRUE]

IdleRun ==
    /\ pc = "idle"
    /\ sources = <<>>
    /\ requested = <<>>
    /\ idx = 0
    /\ session_id = 0              \* None
    /\ results = new_results(0)
    /\ all_businesses = <<>>
    /\ raised = FALSE
    /\ calls = <<>>
    /\ db_failed = {}
    /\ previous_run = <<>>

IdleFn == fn = "none" /\ fin = <<>> /\ fout = <<>>

Init ==
    /\ InitStore
    /\ orch \in Orchestrators
    /\ IdleRun
    /\ IdleFn

\* scrape_location up to the source loop: lines 56-75 (BusinessScraper),
\* 56-81 (RealBusinessScraper), 55-82 (StreamlitRealScraper)
Start ==
    /\ pc = "idle"
    /\ \E req \in BoundedSeq(SourceNames, MaxSources), ok \in DbOutcomes :
         LET created == create_scraping_session(db_sessions, RunLocation, ok)
         IN  /\ requested' = req
             /\ sources' = IF orch = "StreamlitRealScraper" THEN available_sources(req)
                            ELSE req
             /\ db_sessions' = created.sessions
             /\ db_op' = [name |-> "create_scraping_session", arg |-> <<>>,
                           ret |-> created.ret, ok |-> ok]
             /\ db_failed' = IF ok THEN db_failed ELSE db_failed \cup {"create_scraping_session"}
             /\ IF created.exc
                THEN /\ raised' = TRUE /\ pc' = "done"
                     /\ UNCHANGED <<session_id, results, idx>>
                ELSE /\ session_id' = created.ret
                     /\ results' = new_results(created.ret)
                     /\ idx' = 1
                     /\ pc' = "loop"
                     /\ raised' = FALSE
    /\ all_businesses' = <<>>
    /\ UNCHANGED <<db_businesses, orch, calls, fn_vars, previous_run>>

\* results['errors'].append(f"{kind}: {source}...")
with_error(res, kind, source) ==
    [res EXCEPT !.errors = Append(@, [kind |-> kind, source |-> source])]

\* lines 98-100 / 108-110 / 104-106: the source's records join the run
with_source(res, source, n) ==
    [res EXCEPT !.businesses_by_source = DictSet(@, source, n),
                !.sources_scraped = Append(@, source)]

\* variant of the branches that record a source's count without adding it to
\* sources_scraped: the count is not recorded
with_count_dropped(res, source, n) == res

with_count(res, source, n) ==
    [res EXCEPT !.businesses_by_source = DictSet(@, source, n)]

\* variant of the unknown-source branch that skips the name without an error
UnknownSourceSilent ==
    /\ pc = "loop" /\ idx <= Len(sources)
    /\ orch \in {"BusinessScraper", "RealBusinessScraper"}
    /\ sources[idx] \notin scrapers(orch)
    /\ idx' = idx + 1
    /\ UNCHANGED <<store_vars, orch, pc, sources, requested, session_id, results,
                   all_businesses, raised, calls, db_failed, fn_vars, previous_run>>

\* the `continue` of an unknown source: business_scraper.py 79-83,
\* real_business_scraper.py 85-89
UnknownSource ==
    /\ pc = "loop" /\ idx <= Len(sources)
    /\ orch \in {"BusinessScraper", "RealBusinessScraper"}
    /\ sources[idx] \notin scrapers(orch)
    /\ results' = with_error(results, "Unknown scraper source", sources[idx])
    /\ idx' = idx + 1
    /\ UNCHANGED <<store_vars, orch, pc, sources, requested, session_id,
                   all_businesses, raised, calls, db_failed, fn_vars, previous_run>>

\* one iteration of the loop of BusinessScraper.scrape_location, lines 85-114
BusinessSource ==
    /\ pc = "loop" /\ idx <= Len(sources)
    /\ orch = "BusinessScraper"
    /\ sources[idx] \in scrapers(orch)
    /\ \E out \in AdapterOutcomes, ok \in DbOutcomes :
         LET source == sources[idx]
             got    == business_scrape_from_source(
                          [out EXCEPT !.businesses = stamped(@, source)])
             source_businesses == got.businesses
             stored == insert_businesses_batch(db_businesses, source_businesses, ok)
         IN  /\ calls' = Append(calls, [source |-> source, outcome |-> OutcomeKind(out),
                                        returned |-> Len(out.businesses),
                                        delayed |-> /\ ~got.raises
                                                    /\ ~(source_businesses # <<>> /\ stored.exc)])
             /\ IF got.raises
                THEN /\ results' = with_count(
                                       with_error(results, "Error scraping from", source),
                                       source, 0)
                     /\ UNCHANGED <<store_vars, all_businesses, db_failed, raised, pc>>
                     /\ idx' = idx + 1
                ELSE IF source_businesses # <<>>
                THEN /\ db_businesses' = stored.rows
                     /\ db_op' = [name |-> "insert_businesses_batch",
                                   arg |-> source_businesses, ret |-> stored.ret,
                                   ok |-> ok]
                     /\ db_failed' = IF ok THEN db_failed
                                      ELSE db_failed \cup {"insert_businesses_batch"}
                     /\ UNCHANGED db_sessions
                     /\ IF stored.exc
                        THEN /\ results' = with_count(
                                       with_error(results, "Error scraping from", source),
                                       source, 0)
                             /\ UNCHANGED all_businesses
                        ELSE /\ all_businesses' = all_businesses \o source_businesses
                             /\ results' = with_source(results, source,
                                                        Len(source_businesses))
                     /\ idx' = idx + 1
                     /\ UNCHANGED <<raised, pc>>
                ELSE /\ results' = with_count(results, source, 0)
                     /\ idx' = idx + 1
                     /\ UNCHANGED <<store_vars, all_businesses, db_failed, raised, pc>>
    /\ UNCHANGED <<orch, sources, requested, session_id, fn_vars, previous_run>>

\* one iteration of the loop of RealBusinessScraper.scrape_location, lines 91-127
RealSource ==
    /\ pc = "loop" /\ idx <= Len(sources)
    /\ orch = "RealBusinessScraper"
    /\ sources[idx] \in scrapers(orch)
    /\ \E out \in AdapterOutcomes, ok \in DbOutcomes :
         LET source == sources[idx]
             got    == real_scrape_from_source(
                          [out EXCEPT !.businesses = stamped(@, source)])
             validated_businesses == validate_and_clean_businesses(got.businesses)
             stored == insert_businesses_batch(db_businesses, validated_businesses, ok)
         IN  /\ calls' = Append(calls, [source |-> source, outcome |-> OutcomeKind(out),
                                        returned |-> Len(out.businesses),
                                        delayed |-> /\ ~got.raises
                                                    /\ ~(validated_businesses # <<>> /\ stored.exc)])
             /\ IF got.raises
                THEN /\ results' = with_count(
                                       with_error(results, "Error scraping from", source),
                                       source, 0)
                     /\ UNCHANGED <<store_vars, all_businesses, db_failed, raised, pc>>
                     /\ idx' = idx + 1
                ELSE IF got.businesses # <<>> /\ validated_businesses # <<>>
                THEN /\ db_businesses' = stored.rows
                     /\ db_op' = [name |-> "insert_businesses_batch",
                                   arg |-> validated_businesses, ret |-> stored.ret,
                                   ok |-> ok]
                     /\ db_failed' = IF ok THEN db_failed
                                      ELSE db_failed \cup {"insert_businesses_batch"}
                     /\ UNCHANGED db_sessions
                     /\ IF stored.exc
                        THEN /\ results' = with_count(
                                       with_error(results, "Error scraping from", source),
                                       source, 0)
                             /\ UNCHANGED all_businesses
                        ELSE /\ all_businesses' = all_businesses \o validated_businesses
                             /\ results' = with_source(results, source,
                                                        Len(validated_businesses))
                     /\ idx' = idx + 1
                     /\ UNCHANGED <<raised, pc>>
                ELSE /\ results' = with_count(results, source, 0)
                     /\ idx' = idx + 1
                     /\ UNCHANGED <<store_vars, all_businesses, db_failed, raised, pc>>
    /\ UNCHANGED <<orch, sources, requested, session_id, fn_vars, previous_run>>

\* one iteration of the loop of StreamlitRealScraper.scrape_location, lines 85-119
StreamlitSource ==
    /\ pc = "loop" /\ idx <= Len(sources)
    /\ orch = "StreamlitRealScraper"
    /\ sources[idx] \in scrapers(orch)
    /\ \E out \in AdapterOutcomes, ok \in DbOutcomes :
         LET source == sources[idx]
             got    == streamlit_scrape_from_real_source(
                          [out EXCEPT !.businesses = stamped(@, source)])
             source_businesses == got.businesses
             stored == insert_businesses_batch(db_businesses, source_businesses, ok)
         IN  /\ calls' = Append(calls, [source |-> source, outcome |-> OutcomeKind(out),
                                        returned |-> Len(out.businesses),
                                        delayed |-> /\ ~got.raises
                                                    /\ ~(source_businesses # <<>> /\ stored.exc)])
             /\ IF got.raises
                THEN /\ results' = with_error(results, "Error scraping from", source)
                     /\ UNCHANGED <<store_vars, all_businesses, db_failed, raised, pc>>
                     /\ idx' = idx + 1
                ELSE IF source_businesses # <<>>
                THEN /\ db_businesses' = stored.rows
                     /\ db_op' = [name |-> "insert_businesses_batch",
                                   arg |-> source_businesses, ret |-> stored.ret,
                                   ok |-> ok]
                     /\ db_failed' = IF ok THEN db_failed
                                      ELSE db_failed \cup {"insert_businesses_batch"}
                     /\ UNCHANGED db_sessions
                     /\ IF stored.exc
                        THEN /\ results' = with_error(results, "Error scraping from", source)
                             /\ UNCHANGED all_businesses
                        ELSE /\ all_businesses' = all_businesses \o source_businesses
                             /\ results' = with_source(results, source,
                                                        Len(source_businesses))
                     /\ idx' = idx + 1
                     /\ UNCHANGED <<raised, pc>>
                ELSE /\ idx' = idx + 1
                     /\ UNCHANGED <<results, store_vars, all_businesses, db_failed,
                                    raised, pc>>
    /\ UNCHANGED <<orch, sources, requested, session_id, fn_vars, previous_run>>

\* the final status handed to update_scraping_session
final_status(res) == IF res.errors = <<>> THEN "completed" ELSE "completed_with_errors"

\* `if self.session_id: self.db_manager.update_scraping_session(...)` and the return
UpdateAndReturn(res) ==
    IF session_id # 0
    THEN \E ok \in DbOutcomes :
           LET updated == update_scraping_session(db_sessions, session_id,
                                                  res.total_businesses,
                                                  final_status(res), ok)
           IN  /\ db_sessions' = updated.sessions
               /\ db_op' = [name |-> "update_scraping_session", arg |-> <<>>,
                             ret |-> 0, ok |-> ok]
               /\ db_failed' = IF ok THEN db_failed
                                ELSE db_failed \cup {"update_scraping_session"}
               /\ raised' = updated.exc
               /\ results' = res
    ELSE /\ results' = res
         /\ UNCHANGED <<db_sessions, db_op, db_failed, raised>>

\* BusinessScraper.scrape_location after the loop, lines 116-136
BusinessFinish ==
    /\ pc = "loop" /\ idx > Len(sources)
    /\ orch = "BusinessScraper"
    /\ UpdateAndReturn([results EXCEPT !.total_businesses = Len(all_businesses),
                                        !.businesses = all_businesses,
                                        !.has_businesses = TRUE])
    /\ pc' = "done"
    /\ UNCHANGED <<db_businesses, orch, sources, requested, idx, session_id,
                   all_businesses, calls, fn_vars, previous_run>>

\* RealBusinessScraper.scrape_location after the loop, lines 129-152
RealFinish ==
    /\ pc = "loop" /\ idx > Len(sources)
    /\ orch = "RealBusinessScraper"
    /\ LET unique_businesses == remove_cross_source_duplicates(all_businesses)
       IN  UpdateAndReturn([results EXCEPT !.total_businesses = Len(unique_businesses),
                                            !.businesses = unique_businesses,
                                            !.has_businesses = TRUE])
    /\ pc' = "done"
    /\ UNCHANGED <<db_businesses, orch, sources, requested, idx, session_id,
                   all_businesses, calls, fn_vars, previous_run>>

\* StreamlitRealScraper.scrape_location after the loop, lines 121-133: the
\* deduplicated list is counted and dropped, the session is left as created
StreamlitFinish ==
    /\ pc = "loop" /\ idx > Len(sources)
    /\ orch = "StreamlitRealScraper"
    /\ LET unique_businesses == remove_duplicates(all_businesses)
       IN  results' = [results EXCEPT !.total_businesses = Len(unique_businesses)]
    /\ pc' = "done"
    /\ UNCHANGED <<store_vars, orch, sources, requested, idx, session_id,
                   all_businesses, raised, calls, db_failed, fn_vars, previous_run>>

Next ==
    \/ Start
    \/ UnknownSource
    \/ BusinessSource
    \/ RealSource
    \/ StreamlitSource
    \/ BusinessFinish
    \/ RealFinish
    \/ StreamlitFinish

Spec == Init /\ [][Next]_vars

\* every coroutine step that is enabled is eventually taken: asyncio runs the
\* single task of the run until it returns
FairSpec == Spec /\ WF_vars(Next)

(***************************************************************************)
(* The store on its own: any sequence of insert_businesses_batch calls     *)
(***************************************************************************)
MaxBatch == 2        \* longest batch handed to the store

Biz(name, contact, address, website, location) ==
    [business_name |-> name, contact |-> contact, address |-> address,
     website |-> website, location |-> location, source |-> <<"s">>,
     data_type |-> Absent]

\* SQLite compares TEXT bytewise: "A" and "a" are different names
StorePool ==
    { Biz(<<"A">>, <<"1">>, <<"x">>, Absent, <<"D">>),
      Biz(<<"A">>, <<"2">>, <<"x">>, Absent, <<"D">>),
      Biz(<<"a">>, <<"1">>, <<"x">>, Absent, <<"D">>),
      Biz(<<"A">>, <<"1">>, Absent, Absent, <<"D">>) }

StoreInsertBatch ==
    /\ \E businesses \in BoundedSeq(StorePool, MaxBatch), ok \in BOOLEAN :
         LET stored == insert_businesses_batch(db_businesses, businesses, ok)
         IN  /\ db_businesses' = stored.rows
             /\ db_op' = [name |-> "insert_businesses_batch", arg |-> businesses,
                           ret |-> stored.ret, ok |-> ok]
    /\ UNCHANGED <<db_sessions, run_vars, fn_vars>>

StoreInsertOne ==
    /\ \E business_data \in StorePool, ok \in BOOLEAN :
         LET stored == insert_business(db_businesses, business_data, ok)
         IN  /\ db_businesses' = stored.rows
             /\ db_op' = [name |-> "insert_business", arg |-> <<business_data>>,
                           ret |-> stored.ret, ok |-> ok]
    /\ UNCHANGED <<db_sessions, run_vars, fn_vars>>

StoreInit == InitStore /\ orch = "BusinessScraper" /\ IdleRun /\ IdleFn

StoreNext == StoreInsertBatch \/ StoreInsertOne

StoreSpec == StoreInit /\ [][StoreNext]_vars

(***************************************************************************)
(* The pure list functions applied to bounded inputs                       *)
(***************************************************************************)
MaxList == 3         \* longest list handed to a deduplicator or to the validator

Pad(n) == [i \in 1..n |-> "x"]

DedupPool ==
    { Biz(<<"A","b">>, Absent, Pad(AddressKeyLen) \o <<"y">>, Absent, <<"d">>),
      Biz(<<"a","b"," ">>, Absent, Pad(AddressKeyLen) \o <<"z">>, Absent, <<"D"," ">>),
      Biz(<<"A","b">>, Absent, Pad(AddressKeyLen - 1) \o <<"y">>, Absent, <<"d">>),
      Biz(<<"A","b">>, Absent, Pad(AddressKeyLen - 1) \o <<"z">>, Absent, <<"d">>),
      Biz(<<"c","d">>, Absent, Pad(AddressKeyLen) \o <<"y">>, Absent, <<"d">>),
      Biz(<<>>, Absent, Pad(AddressKeyLen) \o <<"y">>, Absent, <<"d">>),
      Biz(<<"a","b">>, Absent, <<"e","|","d","|","f">>, Absent, <<"d">>),
      Biz(<<"a","b","|","d","|","e">>, Absent, <<"f">>, Absent, <<"d">>),
      Biz(<<"A","b">>, Absent, Absent, Absent, <<"d">>),
      Biz(<<"A","b">>, Absent, Absent, Absent, <<"e">>),
      Biz(<<"A","b">>, Absent, <<" ">> \o Pad(AddressKeyLen) \o <<"q">>, Absent, <<"d">>) }

CallCrossSourceDedup ==
    /\ fn = "none"
    /\ fn' = "remove_cross_source_duplicates"
    /\ fout' = remove_cross_source_duplicates(fin)
    /\ UNCHANGED <<fin, store_vars, run_vars>>

CallStreamlitDedup ==
    /\ fn = "none"
    /\ fn' = "remove_duplicates"
    /\ fout' = remove_duplicates(fin)
    /\ UNCHANGED <<fin, store_vars, run_vars>>

DedupInit ==
    /\ InitStore /\ orch = "RealBusinessScraper" /\ IdleRun
    /\ fn = "none" /\ fout = <<>>
    /\ fin \in BoundedSeq(DedupPool, MaxList)

DedupNext == CallCrossSourceDedup \/ CallStreamlitDedup

DedupSpec == DedupInit /\ [][DedupNext]_vars

\* raw candidates: every combination of these field values, one at a time
RawNames     == {Absent, NoneVal, <<>>, <<" ">>, <<" ","A","b"," ">>}
RawContacts  == {Absent, NoneVal, <<" ">>, <<"D","e","m","o">>, <<"o","k">>,
                 <<"p",":","+","9","1","-","9","8","7","6","5","4","3","2","1","0","!">>}
RawAddresses == {Absent, NoneVal, <<" ">>, <<",">>, <<" ","x",","," ","P"," ">>}
RawWebsites  == {Absent, NoneVal, <<>>, <<"t","e","s","t",".","i","n">>, <<" ","w",".","i","n">>}
RawLocations == {Absent, NoneVal, <<>>, <<" ">>, <<"D">>}

RawCandidates ==
    { Biz(n, c, a, w, l) : n \in RawNames, c \in RawContacts, a \in RawAddresses,
                           w \in RawWebsites, l \in RawLocations }

\* candidates that lists longer than one are built from
ValidatePool ==
    { Biz(<<" ","A","b"," ">>, <<"o","k">>, Absent, Absent, <<"D">>),
      Biz(<<" ","A","b"," ">>, Absent, Absent, Absent, <<"D">>),
      Biz(<<" ">>, <<"o","k">>, Absent, Absent, <<"D">>),
      Biz(<<" ","A","b"," ">>, NoneVal, <<" ","x",","," ","P"," ">>, Absent, Absent),
      Biz(<<" ","A","b"," ">>, <<"D","e","m","o">>, <<" ","x",","," ","P"," ">>, Absent, Absent),
      Biz(<<" ","A","b"," ">>, <<"D","e","m","o">>, <<",">>, <<" ","w",".","i","n">>, <<" ">>) }

CallValidate ==
    /\ fn = "none"
    /\ fn' = "validate_and_clean_businesses"
    /\ fout' = validate_and_clean_businesses(fin)
    /\ UNCHANGED <<fin, store_vars, run_vars>>

ValidateInit ==
    /\ InitStore /\ orch = "RealBusinessScraper" /\ IdleRun
    /\ fn = "none" /\ fout = <<>>
    /\ fin \in BoundedSeq(ValidatePool, MaxList) \cup {<<c>> : c \in RawCandidates}

ValidateNext == CallValidate

ValidateSpec == ValidateInit /\ [][ValidateNext]_vars

(***************************************************************************)
(* Two scrape_location calls in sequence on one BusinessScraper object and  *)
(* one store, with the same arguments, the adapters returning the second    *)
(* time what they returned the first time.                                  *)
(***************************************************************************)
\* the `sources` arguments the two calls are made with
RerunRequests ==
    { <<"justdial">>, <<"justdial", "it_clients">>, <<"unknown_source", "justdial">>,
      <<"it_clients", "it_clients">> }

StartFirst ==
    /\ previous_run = <<>>
    /\ Start
    /\ requested' \in RerunRequests

FirstSource == previous_run = <<>> /\ BusinessSource

FirstUnknownSource == previous_run = <<>> /\ UnknownSource

FirstFinish == previous_run = <<>> /\ BusinessFinish

\* the first call has returned: the caller keeps its summary
ReturnFirst ==
    /\ pc = "done" /\ previous_run = <<>> /\ ~raised
    /\ previous_run' = <<[requested |-> requested, calls |-> calls,
                           all_businesses |-> all_businesses, results |-> results,
                           db_businesses |-> db_businesses]>>
    /\ pc' = "idle"
    /\ calls' = <<>>
    /\ UNCHANGED <<store_vars, orch, sources, requested, idx, session_id, results,
                   all_businesses, raised, db_failed, fn_vars>>

\* the second call, with the arguments of the first
StartAgain ==
    /\ previous_run # <<>>
    /\ Start
    /\ requested' = previous_run[1].requested

\* an iteration of the second call: the adapter does what it did the first time
AgainSource ==
    /\ previous_run # <<>>
    /\ BusinessSource
    /\ calls'[Len(calls')] = previous_run[1].calls[Len(calls')]
    /\ all_businesses' = SubSeq(previous_run[1].all_businesses, 1, Len(all_businesses'))

AgainUnknownSource == previous_run # <<>> /\ UnknownSource

AgainFinish == previous_run # <<>> /\ BusinessFinish

RerunInit == InitStore /\ orch = "BusinessScraper" /\ IdleRun /\ IdleFn

RerunNext ==
    \/ StartFirst
    \/ FirstUnknownSource
    \/ FirstSource
    \/ FirstFinish
    \/ ReturnFirst
    \/ StartAgain
    \/ AgainUnknownSource
    \/ AgainSource
    \/ AgainFinish

RerunSpec == RerunInit /\ [][RerunNext]_vars

(***************************************************************************)
(* Adapters.  One search_businesses call in an environment env:            *)
(*   api_key  GOOGLE_MAPS_API_KEY is set                                    *)
(*   init     creating the aiohttp session / launching the browser          *)
(*   fetch    what an outbound request meets: a 200 page, a transport       *)
(*            error, a 403, another status, or a page the parser chokes on  *)
(*   page     the businesses a 200 page holds                               *)
(*   close    closing the session                                           *)
(* The call leaves: an exception or not, the list returned, the state of    *)
(* the adapter's session and browser, and whether a request went out.  The  *)
(* loops over search terms and URLs repeat one round, which is modelled.    *)
(***************************************************************************)
Fetches == {"ok", "transport_error", "status_403", "status_500", "parse_error"}

Environments ==
    [api_key : BOOLEAN, init : {"ok", "fails"}, fetch : Fetches,
     page : BoundedSeq(RunPool, MaxResults), close : {"ok", "fails"}]

Left(exc, businesses, session, browser, sent) ==
    [raised |-> exc, businesses |-> businesses, session |-> session,
     browser |-> browser, requested |-> sent]

\* what the request round of a 200-or-nothing adapter yields
fetched(env) == IF env.fetch = "ok" THEN env.page ELSE <<>>

\* ActualJustDialScraper._remove_duplicates: first business of each name
RECURSIVE justdial_remove_duplicates(_, _, _, _)
justdial_remove_duplicates(bs, i, seen_names, unique_businesses) ==
    IF i > Len(bs) THEN unique_businesses
    ELSE LET name == Strip(Lower(Get(bs[i].business_name)))
         IN  IF name # <<>> /\ name \notin seen_names
             THEN justdial_remove_duplicates(bs, i + 1, seen_names \cup {name},
                                             Append(unique_businesses, bs[i]))
             ELSE justdial_remove_duplicates(bs, i + 1, seen_names, unique_businesses)

\* ActualJustDialScraper.close_session: an error of session.close() is logged
justdial_close_session(env) == IF env.close = "ok" THEN "closed" ELSE "open"

\* ActualJustDialScraper.search_businesses
ActualJustDialScraper_search_businesses(env) ==
    IF env.init = "fails"
    THEN Left(FALSE, <<>>, "none", "none", FALSE)
    ELSE Left(FALSE, justdial_remove_duplicates(fetched(env), 1, {}, <<>>),
              justdial_close_session(env), "none", TRUE)

\* ActualYellowPagesScraper.search_businesses: close_session runs in the finally
\* clause and has no handler of its own
ActualYellowPagesScraper_search_businesses(env) ==
    IF env.init = "fails"
    THEN Left(FALSE, <<>>, "none", "none", FALSE)
    ELSE IF env.close = "fails"
    THEN Left(TRUE, <<>>, "open", "none", TRUE)
    ELSE Left(FALSE, fetched(env), "closed", "none", TRUE)

\* variant of RealGoogleMapsAPIScraper.search_businesses without the check of
\* self.api_key at 729-731
RealGoogleMapsAPIScraper_search_businesses_unchecked(env) ==
    IF env.init = "fails"
    THEN Left(FALSE, <<>>, "none", "none", FALSE)
    ELSE IF env.close = "fails"
    THEN Left(TRUE, <<>>, "open", "none", TRUE)
    ELSE Left(FALSE, fetched(env), "closed", "none", TRUE)

\* RealGoogleMapsAPIScraper.search_businesses of actual_real_scrapers.py
RealGoogleMapsAPIScraper_search_businesses(env) ==
    IF ~env.api_key
    THEN Left(FALSE, <<>>, "none", "none", FALSE)
    ELSE IF env.init = "fails"
    THEN Left(FALSE, <<>>, "none", "none", FALSE)
    ELSE IF env.close = "fails"
    THEN Left(TRUE, <<>>, "open", "none", TRUE)
    ELSE Left(FALSE, fetched(env), "closed", "none", TRUE)

\* RealGoogleMapsAPIScraper.search_businesses of real_scrapers_simple.py: with a
\* key it sleeps and returns the empty list
SimpleGoogleMapsAPIScraper_search_businesses(env) ==
    Left(FALSE, <<>>, "none", "none", FALSE)

\* GoogleMapsScraper._search_with_api: the session is an `async with` block
search_with_api(env) ==
    IF env.init = "fails"
    THEN Left(FALSE, <<>>, "none", "none", FALSE)
    ELSE Left(FALSE, fetched(env), "closed", "none", TRUE)

\* GoogleMapsScraper._search_with_browser: init_browser, then the page is driven;
\* nothing here closes the browser
search_with_browser(env) ==
    IF env.init = "fails"
    THEN Left(FALSE, <<>>, "none", "none", FALSE)
    ELSE Left(FALSE, fetched(env), "none", "open", TRUE)

\* GoogleMapsScraper.search_businesses
GoogleMapsScraper_search_businesses(env) ==
    IF env.api_key THEN search_with_api(env) ELSE search_with_browser(env)

Adapters ==
    {"ActualJustDialScraper", "ActualYellowPagesScraper", "RealGoogleMapsAPIScraper",
     "SimpleGoogleMapsAPIScraper", "GoogleMapsScraper"}

CallJustDial ==
    /\ fn = "none" /\ fn' = "ActualJustDialScraper"
    /\ fout' = ActualJustDialScraper_search_businesses(fin)
    /\ UNCHANGED <<fin, store_vars, run_vars>>

CallYellowPages ==
    /\ fn = "none" /\ fn' = "ActualYellowPagesScraper"
    /\ fout' = ActualYellowPagesScraper_search_businesses(fin)
    /\ UNCHANGED <<fin, store_vars, run_vars>>

CallGoogleMapsAPI ==
    /\ fn = "none" /\ fn' = "RealGoogleMapsAPIScraper"
    /\ fout' = RealGoogleMapsAPIScraper_search_businesses(fin)
    /\ UNCHANGED <<fin, store_vars, run_vars>>

CallSimpleGoogleMapsAPI ==
    /\ fn = "none" /\ fn' = "SimpleGoogleMapsAPIScraper"
    /\ fout' = SimpleGoogleMapsAPIScraper_search_businesses(fin)
    /\ UNCHANGED <<fin, store_vars, run_vars>>

CallGoogleMaps ==
    /\ fn = "none" /\ fn' = "GoogleMapsScraper"
    /\ fout' = GoogleMapsScraper_search_businesses(fin)
    /\ UNCHANGED <<fin, store_vars, run_vars>>

AdapterInit ==
    /\ InitStore /\ orch = "StreamlitRealScraper" /\ IdleRun
    /\ fn = "none" /\ fout = <<>>
    /\ fin \in Environments

AdapterNext ==
    \/ CallJustDial
    \/ CallYellowPages
    \/ CallGoogleMapsAPI
    \/ CallSimpleGoogleMapsAPI
    \/ CallGoogleMaps

AdapterSpec == AdapterInit /\ [][AdapterNext]_vars

(***************************************************************************)
(* Geocoding.  Coordinates are the source's decimal degrees times 10^4.     *)
(* An optional value is a sequence: <<>> for None or a missing key, <<v>>   *)
(* for a value.  The two requests of geocode_address each meet one of       *)
(* GeoOutcomes.                                                             *)
(***************************************************************************)
city_coordinates ==
    <<[city |-> <<"d","e","l","h","i">>, latitude |-> 286139, longitude |-> 772090],
      [city |-> <<"m","u","m","b","a","i">>, latitude |-> 190760, longitude |-> 728777],
      [city |-> <<"b","a","n","g","a","l","o","r","e">>, latitude |-> 129716, longitude |-> 775946],
      [city |-> <<"c","h","e","n","n","a","i">>, latitude |-> 130827, longitude |-> 802707],
      [city |-> <<"k","o","l","k","a","t","a">>, latitude |-> 225726, longitude |-> 883639],
      [city |-> <<"h","y","d","e","r","a","b","a","d">>, latitude |-> 173850, longitude |-> 784867],
      [city |-> <<"p","u","n","e">>, latitude |-> 185204, longitude |-> 738567],
      [city |-> <<"a","h","m","e","d","a","b","a","d">>, latitude |-> 230225, longitude |-> 725714],
      [city |-> <<"j","a","i","p","u","r">>, latitude |-> 269124, longitude |-> 757873],
      [city |-> <<"a","g","r","a">>, latitude |-> 271767, longitude |-> 780081]>>

Coord(entry) == [latitude |-> entry.latitude, longitude |-> entry.longitude]

\* variant of _get_default_coordinates in which the last table city contained
\* in the address wins
RECURSIVE get_default_coordinates_last_match(_, _)
get_default_coordinates_last_match(address, i) ==
    IF i < 1 THEN Coord(city_coordinates[1])
    ELSE IF Contains(Lower(address), city_coordinates[i].city)
    THEN Coord(city_coordinates[i])
    ELSE get_default_coordinates_last_match(address, i - 1)

\* ScrapingUtils._get_default_coordinates: the table is walked in insertion
\* order from entry i on; Delhi when no city is contained in the address
RECURSIVE get_default_coordinates(_, _)
get_default_coordinates(address, i) ==
    IF i > Len(city_coordinates) THEN [latitude |-> 286139, longitude |-> 772090]
    ELSE IF Contains(Lower(address), city_coordinates[i].city)
    THEN Coord(city_coordinates[i])
    ELSE get_default_coordinates(address, i + 1)

GeoOutcomes == {"found", "empty", "status", "timeout", "error", "malformed"}

\* ScrapingUtils.geocode_address from the request of `attempt` (0 or 1) on
RECURSIVE geocode_attempt(_, _, _, _)
geocode_attempt(address, attempts, answer, attempt) ==
    LET met == attempts[attempt + 1]
    IN  CASE met = "found" -> <<answer>>
          [] met \in {"empty", "status"} -> <<>>
          [] met = "timeout" ->
                IF attempt = 0
                THEN geocode_attempt(address, attempts, answer, 1)
                ELSE <<get_default_coordinates(address, 1)>>
          [] OTHER ->
                IF attempt = 1
                THEN <<get_default_coordinates(address, 1)>>
                ELSE geocode_attempt(address, attempts, answer, 1)

geocode_address(address, attempts, answer) ==
    geocode_attempt(address, attempts, answer, 0)

\* BusinessScraper._add_geocoding on one business
add_geocoding_one(business, attempts, answer) ==
    IF Truthy(business.address)
    THEN LET coords == geocode_address(business.address, attempts, answer)
         IN  IF coords # <<>>
             THEN [business EXCEPT !.latitude = <<coords[1].latitude>>,
                                   !.longitude = <<coords[1].longitude>>]
             ELSE business
    ELSE business

\* BusinessScraper._add_geocoding
add_geocoding(businesses, attempts, answer) ==
    [i \in 1..Len(businesses) |-> add_geocoding_one(businesses[i], attempts, answer)]

\* RealBusinessScraper._add_geocoding_if_needed: ScrapingUtils has no
\* get_coordinates, so the lookup raises AttributeError, which is caught
add_geocoding_if_needed(businesses) ==
    [i \in 1..Len(businesses) |-> businesses[i]]

GeoAddresses ==
    {
     <<"D","e","l","h","i">>,   \* "Delhi"
     <<"M","U","M","B","A","I">>,   \* "MUMBAI"
     <<"M","G"," ","R","o","a","d",","," ","P","u","n","e">>,   \* "MG Road, Pune"
     <<"D","e","l","h","i"," ","R","d",","," ","M","u","m","b","a","i">>,   \* "Delhi Rd, Mumbai"
     <<"A","g","r","a"," ","C","h","o","w","k",","," ","J","a","i","p","u","r">>,   \* "Agra Chowk, Jaipur"
     <<"G","o","a">>,   \* "Goa"
     <<>>    \* ""
    }

GeoAnswers ==
    {[latitude |-> 190760, longitude |-> 728777],
     [latitude |-> 151234, longitude |-> 739876]}

GeoBusinesses ==
    [address : GeoAddresses \cup {Absent}, latitude : {<<>>, <<151234>>},
     longitude : {<<>>, <<739876>>}]

GeoInputs ==
    [business : {b \in GeoBusinesses : (b.latitude = <<>>) = (b.longitude = <<>>)},
     attempts : GeoOutcomes \X GeoOutcomes, answer : GeoAnswers]

CallGeocodeAddress ==
    /\ fn = "none" /\ fn' = "geocode_address"
    /\ fin.business.address # Absent
    /\ fout' = [result |-> geocode_address(fin.business.address, fin.attempts, fin.answer)]
    /\ UNCHANGED <<fin, store_vars, run_vars>>

\* a second call with the same address, whatever the service does this time
CallGeocodeAddressAgain ==
    /\ fn = "geocode_address" /\ fn' = "geocode_address_again"
    /\ \E attempts \in GeoOutcomes \X GeoOutcomes :
          fout' = [result |-> geocode_address(fin.business.address, attempts, fin.answer),
                   attempts |-> attempts, before |-> fout.result]
    /\ UNCHANGED <<fin, store_vars, run_vars>>

CallAddGeocoding ==
    /\ fn = "none" /\ fn' = "_add_geocoding"
    /\ fout' = [raised |-> FALSE,
                businesses |-> add_geocoding(<<fin.business>>, fin.attempts, fin.answer)]
    /\ UNCHANGED <<fin, store_vars, run_vars>>

CallAddGeocodingIfNeeded ==
    /\ fn = "none" /\ fn' = "_add_geocoding_if_needed"
    /\ fout' = [raised |-> FALSE, businesses |-> add_geocoding_if_needed(<<fin.business>>)]
    /\ UNCHANGED <<fin, store_vars, run_vars>>

GeoInit ==
    /\ InitStore /\ orch = "BusinessScraper" /\ IdleRun
    /\ fn = "none" /\ fout = <<>>
    /\ fin \in GeoInputs

GeoNext ==
    \/ CallGeocodeAddress
    \/ CallGeocodeAddressAgain
    \/ CallAddGeocoding
    \/ CallAddGeocodingIfNeeded

GeoSpec == GeoInit /\ [][GeoNext]_vars

(***************************************************************************)
(* Cancellation of BusinessScraper.scrape_location.  CancelledError is a    *)
(* BaseException (setup.py requires Python 3.8), so no `except Exception`   *)
(* of the run catches it: it leaves scrape_location from the await the run  *)
(* is suspended at -- the fetch, the geocoding sleep, the inter-source      *)
(* delay or the cleanup.                                                    *)
(***************************************************************************)
\* variant of the cancellation in which the run's writes are undone
CancelRollingBack ==
    /\ pc = "loop"
    /\ orch = "BusinessScraper"
    /\ pc' = "cancelled"
    /\ raised' = TRUE
    /\ db_businesses' = <<>>
    /\ UNCHANGED <<db_sessions, db_op, orch, sources, requested, idx, session_id,
                   results, all_businesses, calls, db_failed, fn_vars, previous_run>>

\* cancelled while suspended in the fetch of sources[idx], in the delay after
\* the source before it, or in _cleanup_scrapers: lines 87, 108, 117
Cancel ==
    /\ pc = "loop"
    /\ orch = "BusinessScraper"
    /\ pc' = "cancelled"
    /\ raised' = TRUE
    /\ UNCHANGED <<store_vars, orch, sources, requested, idx, session_id, results,
                   all_businesses, calls, db_failed, fn_vars, previous_run>>

\* cancelled in _add_geocoding (line 93, the sleep of line 207): the fetch of
\* sources[idx] has returned records, nothing of them is stored yet
CancelEnriching ==
    /\ pc = "loop" /\ idx <= Len(sources)
    /\ orch = "BusinessScraper"
    /\ sources[idx] \in scrapers(orch)
    /\ \E out \in AdapterOutcomes :
         /\ ~out.raises /\ out.businesses # <<>>
         /\ calls' = Append(calls, [source |-> sources[idx], outcome |-> OutcomeKind(out),
                                    returned |-> Len(out.businesses), delayed |-> FALSE])
    /\ pc' = "cancelled"
    /\ raised' = TRUE
    /\ UNCHANGED <<store_vars, orch, sources, requested, idx, session_id, results,
                   all_businesses, db_failed, fn_vars, previous_run>>

CancelInit ==
    /\ InitStore
    /\ orch = "BusinessScraper"
    /\ IdleRun
    /\ IdleFn

CancelNext ==
    \/ Start
    \/ UnknownSource
    \/ BusinessSource
    \/ BusinessFinish
    \/ Cancel
    \/ CancelEnriching

CancelSpec == CancelInit /\ [][CancelNext]_vars

(***************************************************************************)
(* The per-source cap.  BusinessScraper._scrape_from_source hands            *)
(* max_results to googlemaps and max(1, max_results // 20) pages to the      *)
(* directory adapters; the list the adapter returns is used as it is.        *)
(***************************************************************************)
\* JustDialScraper._generate_sample_data(location, term, count): `count` records
generate_sample_data(term, count) == [i \in 1..count |-> [term |-> term, i |-> i]]

\* JustDialScraper.search_businesses: max_pages is not read
RECURSIVE justdial_search_terms(_, _)
justdial_search_terms(search_terms, t) ==
    IF t > Len(search_terms) THEN <<>>
    ELSE generate_sample_data(search_terms[t], 3) \o justdial_search_terms(search_terms, t + 1)

JustDialScraper_search_businesses(category, max_pages) ==
    LET search_terms == IF category # "" THEN <<category>>
                        ELSE <<"restaurants", "shops", "services">>
    IN  justdial_search_terms(Take(search_terms, 2), 1)

\* GoogleMapsScraper: data['results'][:max_results]
maps_search_businesses(places, max_results) ==
    Take([i \in 1..places |-> [term |-> "place", i |-> i]], max_results)

\* BusinessScraper._scrape_from_source, lines 147-152
business_scrape_from_source_capped(source, category, max_results, places) ==
    IF source = "googlemaps"
    THEN maps_search_businesses(places, max_results)
    ELSE LET max_pages == IF max_results \div 20 > 1 THEN max_results \div 20 ELSE 1
         IN  JustDialScraper_search_businesses(category, max_pages)

CapInputs ==
    [source : {"justdial", "googlemaps"}, category : {"", "shops"},
     max_results_per_source : {1, 2, 3, 5, 6, 7, 30, 50, 100},
     places : {0, 1, 2, 4, 8}]

\* one iteration of the source loop as far as the counts go: lines 87-99
CallScrapeFromSource ==
    /\ fn = "none" /\ fn' = "_scrape_from_source"
    /\ LET source_businesses ==
               business_scrape_from_source_capped(fin.source, fin.category,
                                                  fin.max_results_per_source, fin.places)
       IN  fout' = [businesses_by_source |-> Len(source_businesses),
                    batch |-> source_businesses]
    /\ UNCHANGED <<fin, store_vars, run_vars>>

CapInit ==
    /\ InitStore /\ orch = "BusinessScraper" /\ IdleRun
    /\ fn = "none" /\ fout = <<>>
    /\ fin \in CapInputs

CapNext == CallScrapeFromSource

CapSpec == CapInit /\ [][CapNext]_vars

(***************************************************************************)
(* quick_scrape and comprehensive_scrape.  What a BusinessScraper run does  *)
(* is told as the list of its adapter, store and session operations, given  *)
(* the set `found` of sources whose adapter returns records.                *)
(***************************************************************************)
\* BusinessScraper.quick_scrape: the max_results_per_source it hands on
quick_max_results(selected_sources) == IF selected_sources # <<>> THEN 30 ELSE 30

\* BusinessScraper.comprehensive_scrape: the `sources` it hands to scrape_location
comprehensive_scrape(selected_sources) ==
    IF selected_sources # <<>> THEN selected_sources
    ELSE <<"justdial", "indiamart", "yellowpages", "googlemaps", "it_clients">>

\* BusinessScraper.comprehensive_scrape: the max_results_per_source it hands on
comprehensive_max_results(selected_sources) ==
    IF selected_sources # <<>> THEN 100 ELSE 100

Operation(op, source, limit) == [op |-> op, source |-> source, limit |-> limit]

\* one iteration of the source loop, lines 79-108, and the argument
\* _scrape_from_source gives the adapter, lines 147-152
source_operations(source, max_results, found) ==
    IF source \notin scrapers("BusinessScraper") THEN <<>>
    ELSE <<Operation("search_businesses", source,
                     IF source = "googlemaps" THEN max_results
                     ELSE IF max_results \div 20 > 1 THEN max_results \div 20 ELSE 1)>>
         \o (IF source \in found
             THEN <<Operation("insert_businesses_batch", source, 0)>> ELSE <<>>)

RECURSIVE loop_operations(_, _, _, _)
loop_operations(srcs, i, max_results, found) ==
    IF i > Len(srcs) THEN <<>>
    ELSE source_operations(srcs[i], max_results, found)
         \o loop_operations(srcs, i + 1, max_results, found)

\* BusinessScraper.scrape_location(location, category, sources, max_results_per_source)
scrape_location_operations(srcs, max_results_per_source, found) ==
    <<Operation("create_scraping_session", "", 0)>>
    \o loop_operations(srcs, 1, max_results_per_source, found)
    \o <<Operation("update_scraping_session", "", 0)>>

ModeSources == {"justdial", "googlemaps", "unknown_source"}

ModeInputs ==
    [selected_sources : BoundedSeq(ModeSources, MaxSources),
     found : SUBSET {"justdial", "googlemaps"},
     max_results_per_source : {30, 100}]

CallQuickScrape ==
    /\ fn = "none" /\ fn' = "quick_scrape"
    /\ fout' = scrape_location_operations(quick_scrape(fin.selected_sources),
                                          quick_max_results(fin.selected_sources),
                                          fin.found)
    /\ UNCHANGED <<fin, store_vars, run_vars>>

CallComprehensiveScrape ==
    /\ fn = "none" /\ fn' = "comprehensive_scrape"
    /\ fout' = scrape_location_operations(comprehensive_scrape(fin.selected_sources),
                                          comprehensive_max_results(fin.selected_sources),
                                          fin.found)
    /\ UNCHANGED <<fin, store_vars, run_vars>>

CallScrapeLocation ==
    /\ fn = "none" /\ fn' = "scrape_location"
    /\ fout' = scrape_location_operations(fin.selected_sources,
                                          fin.max_results_per_source, fin.found)
    /\ UNCHANGED <<fin, store_vars, run_vars>>

ModeInit ==
    /\ InitStore /\ orch = "BusinessScraper" /\ IdleRun
    /\ fn = "none" /\ fout = <<>>
    /\ fin \in ModeInputs

ModeNext ==
    \/ CallQuickScrape
    \/ CallComprehensiveScrape
    \/ CallScrapeLocation

ModeSpec == ModeInit /\ [][ModeNext]_vars

(***************************************************************************)
(* ScrapingUtils.safe_request.  fin lists what the successive GETs meet;    *)
(* fout holds the loop variable, the GETs made, the sleeps taken, and, once *)
(* the call has ended, the attempt whose response is returned (0 for None)  *)
(* or the exception raised.                                                 *)
(***************************************************************************)
max_retries == 3

RequestOutcomes == {"200", "429", "other", "RequestException"}

\* variant of the loop in which a rate-limited attempt is repeated without
\* being counted
next_attempt_repeating(attempt, met) == IF met = "429" THEN attempt ELSE attempt + 1

\* for attempt in range(max_retries)
next_attempt(attempt, met) == attempt + 1

\* time.sleep of lines 62 and 69-70
sleep_after(attempt, met) ==
    IF met = "429" THEN <<5 * (attempt + 1)>>
    ELSE IF met = "RequestException" /\ attempt < max_retries - 1
    THEN <<2 * (attempt + 1)>>
    ELSE <<>>

SafeInit ==
    /\ InitStore /\ orch = "BusinessScraper" /\ IdleRun
    /\ fn = "safe_request"
    /\ fin \in [1..(max_retries + 1) -> RequestOutcomes]
    /\ fout = [attempt |-> 0, gets |-> 0, slept |-> <<>>, returned |-> FALSE,
               response |-> 0, raised |-> FALSE]

\* one pass of the loop body, lines 52-70
SafeAttempt ==
    /\ ~fout.returned /\ fout.attempt < max_retries
    /\ fout.gets < Len(fin)
    /\ LET met == fin[fout.gets + 1]
       IN  fout' = IF met = "200"
                   THEN [fout EXCEPT !.gets = @ + 1, !.returned = TRUE,
                                     !.response = fout.gets + 1]
                   ELSE [fout EXCEPT !.gets = @ + 1,
                                     !.attempt = next_attempt(@, met),
                                     !.slept = @ \o sleep_after(fout.attempt, met)]
    /\ UNCHANGED <<fn, fin, store_vars, run_vars>>

\* the loop is exhausted: return None, line 72
SafeGiveUp ==
    /\ ~fout.returned /\ fout.attempt >= max_retries
    /\ fout' = [fout EXCEPT !.returned = TRUE, !.response = 0]
    /\ UNCHANGED <<fn, fin, store_vars, run_vars>>

SafeNext == SafeAttempt \/ SafeGiveUp

SafeSpec == SafeInit /\ [][SafeNext]_vars

(***************************************************************************)
(* Two runs store a batch each at the same time, through connections of     *)
(* their own on the same database file.  A connection's first INSERT takes  *)
(* the database's write lock, its rows become visible at commit, and a      *)
(* connection that finds the lock taken waits or gives up with "database is *)
(* locked", which insert_businesses_batch turns into a return value of 0.   *)
(* fout holds, per run: where it is, the tuples executed, its rowcount, the *)
(* value returned; and the lock's holder with the holder's uncommitted      *)
(* table.                                                                   *)
(***************************************************************************)
Runs == {1, 2}

ConcPool ==
    { Biz(<<"A">>, <<"1">>, <<"x">>, Absent, <<"D">>),
      Biz(<<"A">>, <<"2">>, <<"x">>, Absent, <<"D">>),
      Biz(<<"a">>, <<"1">>, <<"x">>, Absent, <<"D">>) }

\* variant of the write lock under which every connection writes at once
can_write_unlocked(lock, r) == TRUE

\* the write lock is free or this connection's own
can_write(lock, r) == lock \in {0, r}

ConcInit ==
    /\ InitStore /\ orch = "BusinessScraper" /\ IdleRun
    /\ fn = "insert_businesses_batch"
    /\ fin \in [Runs -> BoundedSeq(ConcPool, MaxBatch)]
    /\ fout = [pc |-> [r \in Runs |-> "run"], done |-> [r \in Runs |-> 0],
               rowcount |-> [r \in Runs |-> 0], ret |-> [r \in Runs |-> 0],
               work |-> [r \in Runs |-> <<>>], lock |-> 0]

\* cursor.executemany, one tuple of run r's batch
ConcExecute ==
    /\ \E r \in Runs :
         /\ fout.pc[r] = "run" /\ fout.done[r] < Len(fin[r])
         /\ can_write(fout.lock, r)
         /\ LET seen == IF fout.done[r] = 0 THEN db_businesses ELSE fout.work[r]
                one  == insert_or_ignore(seen, data_tuple(fin[r][fout.done[r] + 1]))
            IN  fout' = [fout EXCEPT !.lock = r, !.work[r] = one.rows,
                                     !.done[r] = @ + 1,
                                     !.rowcount[r] = @ + one.rowcount]
    /\ UNCHANGED <<fn, fin, store_vars, run_vars>>

\* the other connection holds the lock for too long: OperationalError, and the
\* except clause returns 0
ConcLocked ==
    /\ \E r \in Runs :
         /\ fout.pc[r] = "run" /\ fout.done[r] < Len(fin[r])
         /\ ~can_write(fout.lock, r)
         /\ fout' = [fout EXCEPT !.pc[r] = "returned", !.ret[r] = 0]
    /\ UNCHANGED <<fn, fin, store_vars, run_vars>>

\* any other sqlite error inside the transaction: the `with` block rolls back
\* and the except clause returns 0
ConcError ==
    /\ \E r \in Runs :
         /\ fout.pc[r] = "run"
         /\ fout' = [fout EXCEPT !.pc[r] = "returned", !.ret[r] = 0,
                                 !.work[r] = <<>>,
                                 !.lock = IF @ = r THEN 0 ELSE @]
    /\ UNCHANGED <<fn, fin, store_vars, run_vars>>

\* conn.commit() and return cursor.rowcount
ConcCommit ==
    /\ \E r \in Runs :
         /\ fout.pc[r] = "run" /\ fout.done[r] = Len(fin[r])
         /\ db_businesses' = IF fout.done[r] = 0 THEN db_businesses ELSE fout.work[r]
         /\ db_op' = [name |-> "insert_businesses_batch", arg |-> fin[r],
                       ret |-> fout.rowcount[r], ok |-> TRUE]
         /\ fout' = [fout EXCEPT !.pc[r] = "returned", !.ret[r] = fout.rowcount[r],
                                 !.work[r] = <<>>,
                                 !.lock = IF @ = r THEN 0 ELSE @]
    /\ UNCHANGED <<fn, fin, db_sessions, run_vars>>

ConcNext ==
    \/ ConcExecute
    \/ ConcLocked
    \/ ConcError
    \/ ConcCommit

ConcSpec == ConcInit /\ [][ConcNext]_vars

(***************************************************************************)
(* Two scrape_location calls on one BusinessScraper object, interleaved at  *)
(* their awaits.  self.session_id (the variable session_id) and the store   *)
(* are shared; fout holds what is local to each call: where it is, the      *)
(* session it created, the session_id of its results dict, the session its  *)
(* update_scraping_session call named, and the source iterations left.      *)
(* Each call has at least one registered source, so that it suspends.       *)
(***************************************************************************)
TwoInit ==
    /\ InitStore /\ orch = "BusinessScraper" /\ IdleRun
    /\ fn = "scrape_location"
    /\ fin \in [Runs -> 1..MaxSources]
    /\ fout = [pc |-> [r \in Runs |-> "idle"], created |-> [r \in Runs |-> 0],
               summary |-> [r \in Runs |-> 0], updated |-> [r \in Runs |-> 0],
               left |-> fin]

\* lines 56-75, up to the first await: the session is created and its id put in
\* self.session_id and in the results dict
TwoStart ==
    /\ \E r \in Runs, ok \in BOOLEAN :
         /\ fout.pc[r] = "idle"
         /\ LET created == create_scraping_session(db_sessions, RunLocation, ok)
            IN  /\ db_sessions' = created.sessions
                /\ session_id' = created.ret
                /\ db_op' = [name |-> "create_scraping_session", arg |-> <<>>,
                              ret |-> created.ret, ok |-> ok]
                /\ fout' = [fout EXCEPT !.pc[r] = "loop", !.created[r] = created.ret,
                                        !.summary[r] = created.ret]
    /\ UNCHANGED <<db_businesses, orch, pc, sources, requested, idx, results,
                   all_businesses, raised, calls, db_failed, previous_run, fn, fin>>

\* one iteration of the source loop, which suspends in the fetch and the delay
TwoSource ==
    /\ \E r \in Runs :
         /\ fout.pc[r] = "loop" /\ fout.left[r] > 0
         /\ fout' = [fout EXCEPT !.left[r] = @ - 1]
    /\ UNCHANGED <<fn, fin, store_vars, run_vars>>

\* lines 117-134: `if self.session_id:` update_scraping_session(self.session_id, ...)
TwoFinish ==
    /\ \E r \in Runs, ok \in BOOLEAN :
         /\ fout.pc[r] = "loop" /\ fout.left[r] = 0
         /\ IF session_id # 0
            THEN /\ db_sessions' = update_scraping_session(db_sessions, session_id, 0,
                                                           "completed", ok).sessions
                 /\ db_op' = [name |-> "update_scraping_session", arg |-> <<session_id>>,
                               ret |-> 0, ok |-> ok]
                 /\ fout' = [fout EXCEPT !.pc[r] = "done", !.updated[r] = session_id]
            ELSE /\ UNCHANGED <<db_sessions, db_op>>
                 /\ fout' = [fout EXCEPT !.pc[r] = "done"]
    /\ UNCHANGED <<db_businesses, run_vars, fn, fin>>

TwoNext ==
    \/ TwoStart
    \/ TwoSource
    \/ TwoFinish

TwoSpec == TwoInit /\ [][TwoNext]_vars

(***************************************************************************)
(* Claims                                                                  *)
(***************************************************************************)
\* the row of business r is in the table
Stored(rows, r) == \E i \in 1..Len(rows) : rows[i] = data_tuple(r)

\* C1 -- Idempotent insert: a call insert_businesses_batch([r]) made when r is
\* already in the store returns 0 and leaves the number of stored rows unchanged.
C1_IdempotentInsert ==
    [][ ( /\ db_op'.name = "insert_businesses_batch"
          /\ Len(db_op'.arg) = 1
          /\ Stored(db_businesses, db_op'.arg[1]) )
        => ( /\ db_op'.ret = 0
             /\ Len(db_businesses') = Len(db_businesses) ) ]_vars

\* a successful second insert of a stored record has returned 0
C1_Witness ==
    /\ db_op.name = "insert_businesses_batch"
    /\ db_op.ok
    /\ Len(db_op.arg) = 1
    /\ Stored(db_businesses, db_op.arg[1])
    /\ db_op.ret = 0
    /\ Len(db_businesses) >= 2

Done == pc = "done"

Distinct(seq) == \A i, j \in 1..Len(seq) : i # j => seq[i] # seq[j]

\* adapter calls of the run that raised or returned nothing
FailedCalls == {i \in 1..Len(calls) : calls[i].outcome \in {"raises", "empty"}}

HasCount(source) == source \in DOMAIN results.businesses_by_source

\* records of all_businesses that the adapter of `source` built
Contributed(source) ==
    Cardinality({i \in 1..Len(all_businesses) :
                    SubSeq(all_businesses[i].source, 1, 1) = <<source>>})

\* the case of C2: at least two distinct registered sources, one adapter failing
C2_Case ==
    /\ Done
    /\ orch \in {"BusinessScraper", "RealBusinessScraper"}
    /\ Len(sources) >= 2 /\ Distinct(sources)
    /\ \A i \in 1..Len(sources) : sources[i] \in scrapers(orch)
    /\ Cardinality(FailedCalls) = 1

C3_SessionLifecycle ==
    (Done /\ db_failed = {}) =>
        /\ Len(db_sessions) = 1
        /\ session_id = 1
        /\ db_sessions[1].updates = 1
        /\ db_sessions[1].status = final_status(results)
        /\ db_sessions[1].status # "running"

\* every source of the run failed: unregistered, or its adapter raised
EverySourceFailed ==
    /\ sources # <<>>
    /\ Len(calls) = Cardinality({i \in 1..Len(sources) : sources[i] \in scrapers(orch)})
    /\ \A i \in 1..Len(calls) : calls[i].outcome = "raises"

\* C4 as stated -- a BusinessScraper run in which every source failed returns a
\* summary with total_businesses = 0 and a non-empty errors list.
C4_AllFailedSummary ==
    (Done /\ orch = "BusinessScraper" /\ EverySourceFailed /\ db_failed = {}) =>
        /\ ~raised
        /\ results.total_businesses = 0
        /\ results.errors # <<>>

\* the case of C5: the caller passed exactly one name, and no adapter has it
C5_Case ==
    /\ Done
    /\ Len(requested) = 1
    /\ requested[1] \notin scrapers(orch)

NonBlank(v) == IsStr(v) /\ Strip(v) # <<>>

\* the location a raw candidate ends up with: its own, or, when it has none, the
\* text after the last comma of its address
NormalizedLocation(raw) ==
    IF Truthy(raw.location) THEN raw.location
    ELSE IF IsStr(raw.address) THEN Strip(SplitLast(raw.address)) ELSE <<>>

\* a raw candidate that C7 says must not come through
Offending(raw) ==
    \/ ~NonBlank(raw.business_name)
    \/ Strip(NormalizedLocation(raw)) = <<>>
    \/ \A method \in {"contact", "website", "address"} : ~NonBlank(raw[method])

\* C7 -- Required-field enforcement: every record in the output of
\* _validate_and_clean_businesses has a non-blank name, a non-blank location and
\* a non-blank contact, website or address; the output holds no more records
\* than the input has candidates that are not offending, and in particular a
\* single offending candidate yields the empty output.
C7_RequiredFields ==
    fn = "validate_and_clean_businesses" =>
        /\ \A k \in 1..Len(fout) :
               /\ NonBlank(fout[k].business_name)
               /\ NonBlank(fout[k].location)
               /\ \E method \in {"contact", "website", "address"} :
                      NonBlank(fout[k][method])
        /\ Len(fout) <= Cardinality({i \in 1..Len(fin) : ~Offending(fin[i])})
        /\ (Len(fin) = 1 /\ Offending(fin[1])) => fout = <<>>

\* a list with an offending candidate and a good one has been validated
C7_Witness ==
    /\ fn = "validate_and_clean_businesses"
    /\ Len(fin) >= 2
    /\ \E i \in 1..Len(fin) : Offending(fin[i]) /\ NonBlank(fin[i].business_name)
    /\ fout # <<>>
    /\ Len(fout) < Len(fin)

\* the key as C8 and C10 state it
StatedKey(b) ==
    << Strip(Lower(Get(b.business_name))),
       Lower(Get(b.location)),
       Take(Lower(Get(b.address)), AddressKeyLen) >>

\* a deduplicator was handed two records with non-blank names
C8_Case ==
    /\ fn \in {"remove_cross_source_duplicates", "remove_duplicates"}
    /\ Len(fin) = 2
    /\ \A i \in 1..2 : Strip(Get(fin[i].business_name)) # <<>>

CrossSourceText(b) ==
    Strip(Lower(Get(b.business_name))) \o <<"|">> \o
    Strip(Lower(Get(b.location))) \o <<"|">> \o
    SubSeq(Strip(Lower(Get(b.address))), 1,
           IF Len(Strip(Lower(Get(b.address)))) < 50
           THEN Len(Strip(Lower(Get(b.address)))) ELSE 50)

\* the text StreamlitRealScraper compares: name and whole address, lower-cased
\* and trimmed, joined by '_'
StreamlitText(b) ==
    Strip(Lower(Get(b.business_name))) \o <<"_">> \o Strip(Lower(Get(b.address)))

FirstSeen(bs) ==
    {i \in 1..Len(bs) :
        /\ Strip(Lower(Get(bs[i].business_name))) # <<>>
        /\ \A j \in 1..(i - 1) :
               \/ Strip(Lower(Get(bs[j].business_name))) = <<>>
               \/ unique_key(bs[j]) # unique_key(bs[i])}

\* the k-th smallest element of a set of numbers
Nth(I, k) == CHOOSE i \in I : Cardinality({j \in I : j < i}) = k - 1

\* position in `sources` of the adapter that built business b
SourcePos(b) == CHOOSE i \in 1..Len(sources) : <<sources[i]>> = b.source

C10_OutputUnique ==
    (Done /\ results.has_businesses /\ db_failed = {}) =>
        \A i, j \in 1..Len(results.businesses) :
            i # j => StatedKey(results.businesses[i]) # StatedKey(results.businesses[j])

\* C11 as stated -- Global dedupe precedes persistence: a batch handed to
\* insert_businesses_batch by a RealBusinessScraper run holds no record whose
\* dedup key a record of another source, handed over in the same run, also has.
C11_DedupBeforePersist ==
    ( /\ orch = "RealBusinessScraper"
      /\ db_op.name = "insert_businesses_batch"
      /\ db_failed = {} ) =>
        \A i \in 1..Len(db_op.arg), j \in 1..Len(all_businesses) :
            all_businesses[j].source # db_op.arg[i].source =>
                unique_key(all_businesses[j]) # unique_key(db_op.arg[i])

\* a candidate without contact, address and website
Invalid(b) == \A method \in {"contact", "website", "address"} : ~NonBlank(b[method])

\* the case of C12: quick_scrape with one selected, registered source whose
\* adapter returned candidates, the valid ones with distinct keys
C12_Case ==
    /\ Done /\ orch = "BusinessScraper" /\ db_failed = {}
    /\ Len(requested) = 1
    /\ sources = quick_scrape(requested)
    /\ sources[1] \in scrapers(orch)
    /\ Len(calls) = 1 /\ calls[1].outcome = "returned"
    /\ Len(all_businesses) = calls[1].returned
    /\ \A i, j \in 1..Len(all_businesses) :
           (i # j /\ ~Invalid(all_businesses[i]) /\ ~Invalid(all_businesses[j])) =>
               StatedKey(all_businesses[i]) # StatedKey(all_businesses[j])

\* C12 as stated -- Summary counts include only validated records: with v valid
\* candidates among those returned, total_businesses is v, businesses_by_source
\* is {source: v} and errors is empty.
C12_ValidatedCounts ==
    C12_Case =>
        LET v == Cardinality({i \in 1..Len(all_businesses) : ~Invalid(all_businesses[i])})
        IN  /\ results.total_businesses = v
            /\ results.businesses_by_source = (sources[1] :> v)
            /\ results.errors = <<>>

\* C13 -- Re-running is store-neutral: in a second BusinessScraper run with the
\* arguments and adapter outputs of the first, no store call failing in either,
\* every insert_businesses_batch returns 0, the businesses table stays as the
\* first run left it, and the summary reports the first run's total_businesses.
C13_RerunStoreNeutral ==
    (previous_run # <<>> /\ db_failed = {}) =>
        /\ db_businesses = previous_run[1].db_businesses
        /\ db_op.name = "insert_businesses_batch" => db_op.ret = 0
        /\ Done => /\ results.total_businesses = previous_run[1].results.total_businesses
                    /\ results.businesses_by_source =
                           previous_run[1].results.businesses_by_source

\* the second run handed a batch to the store, nothing was stored, and it returned
\* the first run's total
C13_Witness ==
    /\ previous_run # <<>> /\ db_failed = {} /\ Done
    /\ Len(sources) >= 2
    /\ results.total_businesses >= 2
    /\ db_businesses # <<>>
    /\ Len(db_businesses) < results.total_businesses

\* the row stored under the (business_name, address, location) of business r
SameKey(row, r) ==
    /\ row.business_name = data_tuple(r).business_name
    /\ row.address = data_tuple(r).address
    /\ row.location = data_tuple(r).location

\* C14 -- Stored records are never overwritten: no store operation changes or
\* removes a row of the businesses table, and insert_business of a record whose
\* (business_name, address, location) is stored leaves the table as it is.
C14_NeverOverwritten ==
    [][ /\ Len(db_businesses') >= Len(db_businesses)
        /\ \A i \in 1..Len(db_businesses) : db_businesses'[i] = db_businesses[i]
        /\ ( /\ db_op'.name = "insert_business"
              /\ \E i \in 1..Len(db_businesses) :
                     SameKey(db_businesses[i], db_op'.arg[1]) )
               => db_businesses' = db_businesses ]_vars

\* a record was inserted whose key is stored with another contact, and the stored
\* row still has its own
C14_Witness ==
    /\ db_op.name = "insert_business" /\ db_op.ok
    /\ db_op.ret = FALSE
    /\ \E i \in 1..Len(db_businesses) :
           /\ SameKey(db_businesses[i], db_op.arg[1])
           /\ db_businesses[i].contact # data_tuple(db_op.arg[1]).contact

\* C15 as stated -- Adapter boundary: whatever fails inside it, search_businesses
\* of ActualJustDialScraper and of ActualYellowPagesScraper returns a list and
\* raises nothing.
C15_AdapterBoundary ==
    fn \in {"ActualJustDialScraper", "ActualYellowPagesScraper"} => ~fout.raised

\* C16 as stated -- Scoped adapter session: when a search_businesses call has
\* ended, and closing did not itself fail, the adapter holds no open session and
\* no open browser.
C16_ScopedSession ==
    (fn \in Adapters /\ fin.close = "ok") =>
        /\ fout.session # "open"
        /\ fout.browser # "open"

\* C17 as stated -- Missing credential short-circuit: without the API key a maps
\* adapter returns the empty list, opens no session or browser and sends nothing.
C17_Original ==
    ( /\ fn \in {"RealGoogleMapsAPIScraper", "SimpleGoogleMapsAPIScraper",
                  "GoogleMapsScraper"}
      /\ ~fin.api_key ) =>
        fout = Left(FALSE, <<>>, "none", "none", FALSE)

\* C17 -- Missing credential, amended: without the API key both
\* RealGoogleMapsAPIScraper classes return the empty list at once, with no
\* session, no browser and no request; GoogleMapsScraper falls back to browser
\* automation: unless the browser fails to start it opens one, sends requests
\* and returns what the page yields.
C17_MissingCredential ==
    (fn \in Adapters /\ ~fin.api_key) =>
        /\ fn \in {"RealGoogleMapsAPIScraper", "SimpleGoogleMapsAPIScraper"} =>
               fout = Left(FALSE, <<>>, "none", "none", FALSE)
        /\ (fn = "GoogleMapsScraper" /\ fin.init = "fails") =>
               fout = Left(FALSE, <<>>, "none", "none", FALSE)
        /\ (fn = "GoogleMapsScraper" /\ fin.init = "ok") =>
               /\ ~fout.raised
               /\ fout.browser = "open" /\ fout.requested
               /\ fout.businesses = IF fin.fetch = "ok" THEN fin.page ELSE <<>>

\* without a key, the API adapter returned nothing although the service would
\* have answered with businesses
C17_Witness ==
    /\ fn = "RealGoogleMapsAPIScraper"
    /\ ~fin.api_key /\ fin.init = "ok" /\ fin.fetch = "ok" /\ fin.page # <<>>
    /\ fout.businesses = <<>> /\ ~fout.requested

\* every request of the call timed out or raised
Unreachable(attempts) == \A k \in 1..2 : attempts[k] \in {"timeout", "error"}

\* C18 as stated -- Geocoding fallback determinism: with the service unreachable,
\* geocode_address returns, for every recognized city the address contains, that
\* city's table coordinate.
C18_Original ==
    (fn = "geocode_address" /\ Unreachable(fin.attempts)) =>
        \A i \in 1..Len(city_coordinates) :
            Contains(Lower(fin.business.address), city_coordinates[i].city) =>
                fout.result = <<Coord(city_coordinates[i])>>

\* C18 -- Geocoding fallback determinism, amended: with the service unreachable,
\* geocode_address returns the table coordinate of the first city, in table
\* order, whose name occurs in the lower-cased address, Delhi's coordinate when
\* none occurs, and a second call with the same address returns the same.
C18_FallbackDeterminism ==
    LET address == Lower(fin.business.address)
        Expected(result) ==
            /\ \A i \in 1..Len(city_coordinates) :
                  ( /\ Contains(address, city_coordinates[i].city)
                    /\ \A j \in 1..(i - 1) : ~Contains(address, city_coordinates[j].city) )
                  => result = <<Coord(city_coordinates[i])>>
            /\ (\A i \in 1..Len(city_coordinates) :
                    ~Contains(address, city_coordinates[i].city))
                  => result = <<[latitude |-> 286139, longitude |-> 772090]>>
    IN  /\ (fn = "geocode_address" /\ Unreachable(fin.attempts)) => Expected(fout.result)
        /\ ( /\ fn = "geocode_address_again"
             /\ Unreachable(fin.attempts) /\ Unreachable(fout.attempts) ) =>
                /\ fout.result = fout.before
                /\ Expected(fout.result)

\* two calls failing in different ways, for an address naming Delhi and Mumbai,
\* both gave Delhi's coordinate
C18_Witness ==
    /\ fn = "geocode_address_again"
    /\ fin.attempts = <<"timeout", "timeout">> /\ fout.attempts = <<"error", "error">>
    /\ Contains(Lower(fin.business.address), city_coordinates[1].city)
    /\ Contains(Lower(fin.business.address), city_coordinates[2].city)
    /\ fout.result = <<Coord(city_coordinates[1])>>
    /\ fout.before = fout.result

\* C19 as stated -- Enrichment never fails outright: whatever the geocoding
\* service does, _add_geocoding raises nothing and leaves a record that has an
\* address with latitude and longitude set.
C19_EnrichmentTotal ==
    (fn = "_add_geocoding" /\ Truthy(fin.business.address)) =>
        /\ ~fout.raised
        /\ \A i \in 1..Len(fout.businesses) :
              /\ fout.businesses[i].latitude # <<>>
              /\ fout.businesses[i].longitude # <<>>

C21_ConcurrentInserts ==
    (fn = "insert_businesses_batch" /\ \A r \in Runs : fout.pc[r] = "returned") =>
        /\ \A i, j \in 1..Len(db_businesses) :
              i # j => ~violates_unique(<<db_businesses[i]>>, db_businesses[j])
        /\ \A i \in 1..Len(db_businesses) :
              \E r \in Runs : \E k \in 1..Len(fin[r]) :
                  db_businesses[i] = data_tuple(fin[r][k])
        /\ fout.ret[1] + fout.ret[2] = Len(db_businesses)

\* both runs stored overlapping batches and both committed: the shared key is
\* stored once and counted once
C21_Witness ==
    /\ fn = "insert_businesses_batch" /\ \A r \in Runs : fout.pc[r] = "returned"
    /\ fin[1] # <<>> /\ fin[2] # <<>>
    /\ \E k \in 1..Len(fin[2]) : violates_unique(<<data_tuple(fin[1][1])>>,
                                                 data_tuple(fin[2][k]))
    /\ fout.ret[1] > 0 /\ fout.ret[2] > 0
    /\ fout.ret[1] + fout.ret[2] = Len(db_businesses)

\* C22 -- Cancellation keeps completed sources: once a run is cancelled, every
\* record of a batch whose store call succeeded is in the store (nothing was
\* rolled back), every stored row is a record of such a batch, and no stored row
\* belongs to the source whose fetch or enrichment the cancellation interrupted.
C22_CancelKeepsCompleted ==
    pc = "cancelled" =>
        /\ db_failed = {} =>
              \A i \in 1..Len(all_businesses) :
                  \/ violates_unique(db_businesses, data_tuple(all_businesses[i]))
                  \/ violates_not_null(data_tuple(all_businesses[i]))
        /\ \A j \in 1..Len(db_businesses) :
              \E i \in 1..Len(all_businesses) :
                  db_businesses[j] = data_tuple(all_businesses[i])
        /\ \A j \in 1..Len(db_businesses) :
              \E k \in 1..(idx - 1) :
                  SubSeq(db_businesses[j].source, 1, 1) = <<sources[k]>>

\* cancelled while the second source's records were being enriched: the first
\* source's batch is stored, nothing of the second is
C22_Witness ==
    /\ pc = "cancelled" /\ idx = 2
    /\ Len(calls) = 2 /\ calls[1].source # calls[2].source
    /\ calls[2].returned > 0
    /\ db_failed = {}
    /\ Len(all_businesses) > 0 /\ Len(db_businesses) = Len(all_businesses)
    /\ \A j \in 1..Len(db_businesses) :
          SubSeq(db_businesses[j].source, 1, 1) = <<calls[1].source>>

\* C23 as stated -- Per-source error recording: when a BusinessScraper run has
\* returned, every source whose adapter call raised is named by an entry of
\* errors, a source whose call returned is named by none, and the session is
\* closed as 'completed' only if no adapter call raised.
C23_PerSourceErrors ==
    (Done /\ orch = "BusinessScraper" /\ ~raised /\ db_failed = {}) =>
        /\ \A i \in 1..Len(calls) :
              calls[i].outcome = "raises" =>
                  \E e \in 1..Len(results.errors) :
                      results.errors[e].source = calls[i].source
        /\ \A e \in 1..Len(results.errors) :
              \A i \in 1..Len(calls) :
                  results.errors[e].source = calls[i].source =>
                      \E k \in 1..Len(calls) :
                          /\ calls[k].source = calls[i].source
                          /\ calls[k].outcome = "raises"
        /\ (session_id \in 1..Len(db_sessions)
              /\ db_sessions[session_id].status = "completed") =>
                 \A i \in 1..Len(calls) : calls[i].outcome # "raises"

\* C24 as stated -- Per-source cap: the number of records a source contributes,
\* and the size of the batch persisted for it, is at most
\* max_results_per_source.
C24_PerSourceCap ==
    fn = "_scrape_from_source" =>
        /\ fout.businesses_by_source <= fin.max_results_per_source
        /\ Len(fout.batch) <= fin.max_results_per_source

\* an operation list with the caps erased
Uncapped(ops) == [i \in 1..Len(ops) |-> [ops[i] EXCEPT !.limit = 0]]

\* C25 -- Quick and comprehensive modes: for a non-empty selection S,
\* quick_scrape performs the operations of scrape_location with S and cap 30,
\* comprehensive_scrape those of scrape_location with S and cap 100, and with
\* the caps erased the two perform the same operations.
C25_ThinModes ==
    fin.selected_sources # <<>> =>
        /\ fn = "quick_scrape" =>
              /\ fout = scrape_location_operations(fin.selected_sources, 30, fin.found)
              /\ Uncapped(fout) =
                    Uncapped(scrape_location_operations(
                                 comprehensive_scrape(fin.selected_sources),
                                 comprehensive_max_results(fin.selected_sources),
                                 fin.found))
        /\ fn = "comprehensive_scrape" =>
              /\ fout = scrape_location_operations(fin.selected_sources, 100, fin.found)
              /\ Uncapped(fout) =
                    Uncapped(scrape_location_operations(
                                 quick_scrape(fin.selected_sources),
                                 quick_max_results(fin.selected_sources),
                                 fin.found))

\* quick_scrape with two selected sources, none of them a default quick source
\* pair: googlemaps is searched with the cap 30 and its batch stored
C25_Witness ==
    /\ fn = "quick_scrape"
    /\ fin.selected_sources = <<"googlemaps", "unknown_source">>
    /\ fin.found = {"googlemaps"}
    /\ fout = << Operation("create_scraping_session", "", 0),
                 Operation("search_businesses", "googlemaps", 30),
                 Operation("insert_businesses_batch", "googlemaps", 0),
                 Operation("update_scraping_session", "", 0) >>

\* C26 as stated -- Source alias resolution in RealBusinessScraper: a run asked
\* for the common name 'justdial' reaches a registered adapter with it, so the
\* name is not reported as an unknown source, while a name that resolves to no
\* adapter is rejected with that error.
C26_AliasResolution ==
    (Done /\ orch = "RealBusinessScraper" /\ ~raised /\ db_failed = {}) =>
        \A i \in 1..Len(sources) :
            /\ sources[i] = "justdial" =>
                  /\ \E k \in 1..Len(calls) : calls[k].source \in scrapers(orch)
                  /\ ~\E e \in 1..Len(results.errors) :
                        /\ results.errors[e].kind = "Unknown scraper source"
                        /\ results.errors[e].source = "justdial"
            /\ sources[i] = "unknown_source" =>
                  \E e \in 1..Len(results.errors) :
                      /\ results.errors[e].kind = "Unknown scraper source"
                      /\ results.errors[e].source = "unknown_source"

\* C27 -- Inter-source delay: in BusinessScraper and StreamlitRealScraper every
\* adapter call that is followed by another one was followed by the inter-source
\* delay first, whatever the earlier call produced: records, nothing or an
\* exception.
C27_InterSourceDelay ==
    orch \in {"BusinessScraper", "StreamlitRealScraper"} =>
        \A i \in 1..(Len(calls) - 1) : calls[i].delayed

\* a source whose adapter raised was followed by the delay and then by the
\* fetch of the next source
C27_Witness ==
    /\ orch = "BusinessScraper"
    /\ Len(calls) = 2
    /\ calls[1].outcome = "raises" /\ calls[1].delayed
    /\ calls[2].outcome = "returned"

\* C28 -- Bounded retry in safe_request: at most max_retries GETs are made; the
\* call returns the response of the first attempt that met status 200, and
\* returns None, raising nothing, when none of the max_retries attempts did.
C28_BoundedRetry ==
    fn = "safe_request" =>
        /\ fout.gets <= max_retries
        /\ ~fout.raised
        /\ fout.returned =>
              /\ fout.response # 0 =>
                    /\ fout.response = fout.gets
                    /\ fin[fout.response] = "200"
                    /\ \A k \in 1..(fout.response - 1) : fin[k] # "200"
              /\ fout.response = 0 =>
                    /\ fout.gets = max_retries
                    /\ \A k \in 1..max_retries : fin[k] # "200"

\* rate limited, then a request exception, then 200: the third response is
\* returned after the two sleeps
C28_Witness ==
    /\ fn = "safe_request" /\ fout.returned
    /\ fin[1] = "429" /\ fin[2] = "RequestException" /\ fin[3] = "200"
    /\ fout.response = 3 /\ fout.gets = 3 /\ fout.slept = <<5, 4>>

\* C29 as stated -- Enrichment only fills gaps: a record that reaches
\* _add_geocoding with latitude and longitude already set leaves it with the
\* same latitude and longitude, and with its other fields unchanged.
C29_OnlyFillsGaps ==
    ( /\ fn = "_add_geocoding"
      /\ fin.business.latitude # <<>> /\ fin.business.longitude # <<>> ) =>
        /\ Len(fout.businesses) = 1
        /\ fout.businesses[1].latitude = fin.business.latitude
        /\ fout.businesses[1].longitude = fin.business.longitude
        /\ fout.businesses[1].address = fin.business.address

\* C30 as stated -- Each run finalises its own session: when two scrape_location
\* calls on one BusinessScraper interleave, the update_scraping_session call at
\* the end of each names the session that call created, and the session_id of
\* each returned summary is that session.
C30_OwnSession ==
    (fn = "scrape_location" /\ \A q \in Runs : fout.created[q] >= 0) =>
        \A r \in Runs :
            fout.pc[r] = "done" =>
                /\ fout.updated[r] = fout.created[r]
                /\ fout.summary[r] = fout.created[r]

====
